---- MODULE Spec2Model ----
(***************************************************************************)
(* A model of the intersection core of the path tracer: vectors and rays,  *)
(* axis-aligned bounding boxes, the primitive hit tests, the bounding      *)
(* volume hierarchy and the path integrator get_color.                     *)
(*                                                                         *)
(* Numbers.  An f64 is modelled by an integer number of grid units; the    *)
(* arithmetic on grid values is exact (rounding is left out), and the      *)
(* IEEE-754 values that the code can produce outside the grid are kept:    *)
(* +infinity, -infinity and NaN are the three values PInf, NInf and NaN,   *)
(* and the sign of a zero direction component is carried beside the        *)
(* direction (1.0 / 0.0 = +inf, 1.0 / -0.0 = -inf).                        *)
(***************************************************************************)
EXTENDS Integers, Sequences, FiniteSets, TLC

\* ------------------------------------------------------------------------
\* f64
\* ------------------------------------------------------------------------

\* std::f64::MAX: the largest finite value; every grid value lies below it.
FLOAT_MAX == 1000000
\* std::f64::MIN: the most negative finite value.
FLOAT_MIN == -FLOAT_MAX
PInf == FLOAT_MAX + 1
NInf == -PInf
NaN == FLOAT_MAX + 2

IsNaN(a) == a = NaN
IsInf(a) == a = PInf \/ a = NInf
IsFinite(a) == ~IsNaN(a) /\ ~IsInf(a)

\* The comparisons of f64: any comparison with NaN is false.
FLt(a, b) == ~IsNaN(a) /\ ~IsNaN(b) /\ a < b
FGt(a, b) == FLt(b, a)
FLe(a, b) == ~IsNaN(a) /\ ~IsNaN(b) /\ a <= b
FGe(a, b) == FLe(b, a)

SignOf(a) == IF a < 0 THEN -1 ELSE 1

\* A finite result beyond the finite range: two operands of that size
\* overflow to infinity, a grid value added to FLOAT_MAX is rounded away.
Round(v, huge) ==
    IF v > FLOAT_MAX THEN (IF huge THEN PInf ELSE FLOAT_MAX)
    ELSE IF v < FLOAT_MIN THEN (IF huge THEN NInf ELSE FLOAT_MIN)
    ELSE v

FNeg(a) == IF IsNaN(a) THEN NaN ELSE -a

FAdd(a, b) ==
    IF IsNaN(a) \/ IsNaN(b) THEN NaN
    ELSE IF IsInf(a) /\ IsInf(b) THEN (IF a = b THEN a ELSE NaN)
    ELSE IF IsInf(a) THEN a
    ELSE IF IsInf(b) THEN b
    ELSE Round(a + b, (a = FLOAT_MAX \/ a = FLOAT_MIN) /\ (b = FLOAT_MAX \/ b = FLOAT_MIN))

FSub(a, b) == FAdd(a, FNeg(b))

FMul(a, b) ==
    IF IsNaN(a) \/ IsNaN(b) THEN NaN
    ELSE IF IsInf(a) \/ IsInf(b)
         THEN (IF a = 0 \/ b = 0 THEN NaN
               ELSE IF SignOf(a) * SignOf(b) > 0 THEN PInf ELSE NInf)
    ELSE Round(a * b, TRUE)

\* a / b for a divisor in {-1, -0.0, +0.0, 1}; negz is the sign bit of a zero
\* divisor.
FDiv(a, b, negz) ==
    IF IsNaN(a) THEN NaN
    ELSE IF b = 0
         THEN (IF a = 0 THEN NaN
               ELSE IF (SignOf(a) > 0) = ~negz THEN PInf ELSE NInf)
    ELSE IF b = 1 THEN a
    ELSE FNeg(a)

FMin(a, b) == IF IsNaN(a) THEN b ELSE IF IsNaN(b) THEN a ELSE IF a < b THEN a ELSE b
FMax(a, b) == IF IsNaN(a) THEN b ELSE IF IsNaN(b) THEN a ELSE IF a > b THEN a ELSE b

\* ------------------------------------------------------------------------
\* Vec3
\* ------------------------------------------------------------------------

Vec3(e0, e1, e2) == <<e0, e1, e2>>
X(v) == v[1]
Y(v) == v[2]
Z(v) == v[3]
VAdd(u, v) == <<FAdd(u[1], v[1]), FAdd(u[2], v[2]), FAdd(u[3], v[3])>>
VSub(u, v) == <<FSub(u[1], v[1]), FSub(u[2], v[2]), FSub(u[3], v[3])>>
VMul(u, v) == <<FMul(u[1], v[1]), FMul(u[2], v[2]), FMul(u[3], v[3])>>
VScale(c, v) == <<FMul(c, v[1]), FMul(c, v[2]), FMul(c, v[3])>>
VNeg(v) == <<FNeg(v[1]), FNeg(v[2]), FNeg(v[3])>>
VAddScalar(v, c) == <<FAdd(v[1], c), FAdd(v[2], c), FAdd(v[3], c)>>
VSubScalar(v, c) == <<FSub(v[1], c), FSub(v[2], c), FSub(v[3], c)>>
dot(u, v) == FAdd(FAdd(FMul(u[1], v[1]), FMul(u[2], v[2])), FMul(u[3], v[3]))

NoNegZero == <<FALSE, FALSE, FALSE>>

\* ------------------------------------------------------------------------
\* Ray
\* ------------------------------------------------------------------------

\* 1.0 / d.  For |d| > 1 the quotient is off the grid and is kept as the
\* fraction it is; no box is asked about a ray with such a component.
Reciprocal(d, negz) ==
    IF IsFinite(d) /\ (d > 1 \/ d < -1) THEN [num |-> 1, den |-> d]
    ELSE FDiv(1, d, negz)

\* 1.0 / d < 0.0
ReciprocalNegative(d, negz) ==
    IF IsFinite(d) /\ (d > 1 \/ d < -1) THEN d < 0
    ELSE FLt(FDiv(1, d, negz), 0)

\* Ray::new.  negz[i] is the sign bit of a zero direction component.
\* A ray whose sign bits are never set.
RayNew_unsigned(origin, direction, negz, time) ==
    [origin |-> origin,
     direction |-> direction,
     negz |-> negz,
     invert_direction |-> <<Reciprocal(direction[1], negz[1]),
                            Reciprocal(direction[2], negz[2]),
                            Reciprocal(direction[3], negz[3])>>,
     sign |-> <<FALSE, FALSE, FALSE>>,
     time |-> time]

RayNew(origin, direction, negz, time) ==
    [origin |-> origin,
     direction |-> direction,
     negz |-> negz,
     invert_direction |-> <<Reciprocal(direction[1], negz[1]),
                            Reciprocal(direction[2], negz[2]),
                            Reciprocal(direction[3], negz[3])>>,
     sign |-> <<ReciprocalNegative(direction[1], negz[1]),
                ReciprocalNegative(direction[2], negz[2]),
                ReciprocalNegative(direction[3], negz[3])>>,
     time |-> time]

\* -direction: every sign bit flips, that of a zero component too.
NegDirection(ray) ==
    RayNew(ray.origin,
           VNeg(ray.direction),
           <<ray.direction[1] = 0 /\ ~ray.negz[1],
             ray.direction[2] = 0 /\ ~ray.negz[2],
             ray.direction[3] = 0 /\ ~ray.negz[3]>>,
           ray.time)

point_at_param(ray, t) == VAdd(ray.origin, VScale(t, ray.direction))

\* ------------------------------------------------------------------------
\* AxisAlignedBoundingBox
\* ------------------------------------------------------------------------

None == [none |-> TRUE]
Some(v) == [some |-> v]

AABBNew(min_bound, max_bound) ==
    [min_bound |-> min_bound, max_bound |-> max_bound,
     bounds |-> <<min_bound, max_bound>>]

\* bounds[s as usize]
BoundsAt(box, s) == box.bounds[IF s THEN 2 ELSE 1]

\* (bounds[s][axis] - origin[axis]) * invert_direction[axis]
Slab(box, ray, axis, s) ==
    FMul(FSub(BoundsAt(box, s)[axis], ray.origin[axis]), ray.invert_direction[axis])

\* A last comparison that lets the box's interval end where the asked one begins.
AABBHitZ_closed(t_min, t_max, txy_min, txy_max, t_z_min, t_z_max) ==
    IF FGt(txy_min, t_z_max) \/ FGt(t_z_min, txy_max) THEN FALSE
    ELSE /\ FLe(IF FGt(t_z_min, txy_min) THEN t_z_min ELSE txy_min, t_max)
         /\ FGe(IF FLt(t_z_max, txy_max) THEN t_z_max ELSE txy_max, t_min)

\* The rest of hit once t_z_min and t_z_max are known; txy_min and txy_max are
\* _t_min and _t_max after the y axis.
AABBHitZ(t_min, t_max, txy_min, txy_max, t_z_min, t_z_max) ==
    IF FGt(txy_min, t_z_max) \/ FGt(t_z_min, txy_max) THEN FALSE
    ELSE /\ FLt(IF FGt(t_z_min, txy_min) THEN t_z_min ELSE txy_min, t_max)
         /\ FGt(IF FLt(t_z_max, txy_max) THEN t_z_max ELSE txy_max, t_min)

\* The rest of hit once the x and y slabs are known.
AABBHitY(box, ray, t_min, t_max, tx_min, tx_max, t_y_min, t_y_max) ==
    IF FGt(tx_min, t_y_max) \/ FGt(t_y_min, tx_max) THEN FALSE
    ELSE AABBHitZ(t_min, t_max,
                  IF FGt(t_y_min, tx_min) THEN t_y_min ELSE tx_min,
                  IF FLt(t_y_max, tx_max) THEN t_y_max ELSE tx_max,
                  Slab(box, ray, 3, ray.sign[3]),
                  Slab(box, ray, 3, ~ray.sign[3]))

AABBHit(box, ray, t_min, t_max) ==
    AABBHitY(box, ray, t_min, t_max,
             Slab(box, ray, 1, ray.sign[1]), Slab(box, ray, 1, ~ray.sign[1]),
             Slab(box, ray, 2, ray.sign[2]), Slab(box, ray, 2, ~ray.sign[2]))

\* A union that keeps the first box's upper corner.
calc_surrounding_box_first_max(box_1, box_2) ==
    LET small_box == Vec3(FMin(X(box_1.min_bound), X(box_2.min_bound)),
                          FMin(Y(box_1.min_bound), Y(box_2.min_bound)),
                          FMin(Z(box_1.min_bound), Z(box_2.min_bound)))
    IN AABBNew(small_box, box_1.max_bound)

calc_surrounding_box(box_1, box_2) ==
    LET small_box == Vec3(FMin(X(box_1.min_bound), X(box_2.min_bound)),
                          FMin(Y(box_1.min_bound), Y(box_2.min_bound)),
                          FMin(Z(box_1.min_bound), Z(box_2.min_bound)))
        big_box == Vec3(FMax(X(box_1.max_bound), X(box_2.max_bound)),
                        FMax(Y(box_1.max_bound), Y(box_2.max_bound)),
                        FMax(Z(box_1.max_bound), Z(box_2.max_bound)))
    IN AABBNew(small_box, big_box)

\* ------------------------------------------------------------------------
\* HitRecord
\* ------------------------------------------------------------------------

\* A quotient the grid does not hold is kept as the fraction it is.
Frac(n, d) == [num |-> n, den |-> d]

RECURSIVE GCD(_, _)
GCD(a, b) == IF b = 0 THEN a ELSE GCD(b, a % b)

Abs(a) == IF a < 0 THEN -a ELSE a

\* The fraction n / d in lowest terms, d > 0: equal numbers are equal records.
Rat(n, d) ==
    LET g == GCD(Abs(n), Abs(d))
    IN IF d < 0 THEN Frac((-n) \div g, (-d) \div g) ELSE Frac(n \div g, d \div g)

\* Sums are taken over the least common denominator and products after
\* cancelling across, which keeps the intermediate integers small.
RAdd(a, b) ==
    LET g == GCD(a.den, b.den)
    IN Rat((a.num * (b.den \div g)) + (b.num * (a.den \div g)), a.den * (b.den \div g))
RSub(a, b) == RAdd(a, Frac(-b.num, b.den))
RMul(a, b) ==
    LET g1 == GCD(Abs(a.num), b.den)
        g2 == GCD(Abs(b.num), a.den)
    IN Rat((a.num \div g1) * (b.num \div g2), (a.den \div g2) * (b.den \div g1))
RDiv(a, b) == Rat(a.num * b.den, a.den * b.num)
RNeg(a) == Frac(-a.num, a.den)
RLt(a, b) == a.num * b.den < b.num * a.den
RLe(a, b) == a.num * b.den <= b.num * a.den
RGt(a, b) == RLt(b, a)

RECURSIVE powi(_, _)
\* f64::powi
powi(a, n) == IF n = 0 THEN Rat(1, 1) ELSE RMul(a, powi(a, n - 1))

\* HitRecord::new
HitRecordNew ==
    [t |-> -1,
     hit_point |-> Vec3(0, 0, 0),
     normal |-> Frac(Vec3(0, 0, 0), 1),
     material |-> "None",
     u |-> Frac(0, 1),
     v |-> Frac(0, 1)]

\* A copy that leaves the material behind in other.
RecFrom_material_left(self, other) ==
    [self |-> [t |-> other.t,
               hit_point |-> other.hit_point,
               normal |-> other.normal,
               material |-> "None",
               u |-> other.u,
               v |-> other.v],
     other |-> other]

\* HitRecord::from: self takes every field of other, and other's material is
\* moved out (Option::take leaves None behind).
RecFrom(self, other) ==
    [self |-> [t |-> other.t,
               hit_point |-> other.hit_point,
               normal |-> other.normal,
               material |-> other.material,
               u |-> other.u,
               v |-> other.v],
     other |-> [other EXCEPT !.material = "None"]]

\* ------------------------------------------------------------------------
\* Hitables
\* ------------------------------------------------------------------------

\* 0.0001, the padding of a rectangle's box, is one grid unit.
PAD == 1

Sphere(center, radius, material) ==
    [kind |-> "Sphere", center |-> center, radius |-> radius, material |-> material]

XYRect(x_0, x_1, y_0, y_1, k, material) ==
    [kind |-> "XYRect", x_0 |-> x_0, x_1 |-> x_1, y_0 |-> y_0, y_1 |-> y_1,
     k |-> k, material |-> material]

XZRect(x_0, x_1, z_0, z_1, k, material) ==
    [kind |-> "XZRect", x_0 |-> x_0, x_1 |-> x_1, z_0 |-> z_0, z_1 |-> z_1,
     k |-> k, material |-> material]

YZRect(y_0, y_1, z_0, z_1, k, material) ==
    [kind |-> "YZRect", y_0 |-> y_0, y_1 |-> y_1, z_0 |-> z_0, z_1 |-> z_1,
     k |-> k, material |-> material]

HitableList(list) == [kind |-> "HitableList", list |-> list]

\* The largest k with k * k <= n: the square root wherever n is a perfect
\* square, which the rays of the model are chosen to make it.
Sqrt(n) == CHOOSE k \in 0..n : k * k <= n /\ (k + 1) * (k + 1) > n

\* What a hit test hands back: the returned bool, the caller's record after
\* the call, and the queries it made of its children, in order, each with
\* what the child handed back.
Outcome(hit, rec, calls) == [hit |-> hit, rec |-> rec, calls |-> calls]
Query(child, t_min, t_max, out) ==
    [child |-> child, t_min |-> t_min, t_max |-> t_max, out |-> out]

\* utils::get_sphere_uv is not among the sources: the spherical mapping is
\* kept as the components of the normal it is computed from (the azimuth
\* from x and z, the polar angle from y).
get_sphere_uv(normal) ==
    <<[azimuth_of |-> <<normal.num[1], normal.num[3]>>, den |-> normal.den],
      [polar_of |-> normal.num[2], den |-> normal.den]>>

\* A record whose normal is not divided by the radius.
SphereHitAt_raw_normal(self, ray, temp, rec) ==
    LET hit_point == point_at_param(ray, temp)
        normal == Frac(VSub(hit_point, self.center), 1)
        uv == get_sphere_uv(normal)
    IN [rec EXCEPT !.t = temp,
                   !.hit_point = hit_point,
                   !.normal = normal,
                   !.material = self.material,
                   !.u = uv[1],
                   !.v = uv[2]]

SphereHitAt(self, ray, temp, rec) ==
    LET hit_point == point_at_param(ray, temp)
        normal == Frac(VSub(hit_point, self.center), self.radius)
        uv == get_sphere_uv(normal)
    IN [rec EXCEPT !.t = temp,
                   !.hit_point = hit_point,
                   !.normal = normal,
                   !.material = self.material,
                   !.u = uv[1],
                   !.v = uv[2]]

\* The rest of hit once both roots are known.
SphereHitRoots(self, ray, t_min, t_max, rec, temp1, temp2) ==
    IF FLt(temp1, t_max) /\ FGt(temp1, t_min)
    THEN Outcome(TRUE, SphereHitAt(self, ray, temp1, rec), <<>>)
    ELSE IF FLt(temp2, t_max) /\ FGt(temp2, t_min)
    THEN Outcome(TRUE, SphereHitAt(self, ray, temp2, rec), <<>>)
    ELSE Outcome(FALSE, rec, <<>>)

\* The rest of hit once the discriminant is known.
SphereHitDisc(self, ray, t_min, t_max, rec, a, b, discriminant) ==
    IF discriminant > 0
    THEN SphereHitRoots(self, ray, t_min, t_max, rec,
                        (-b - Sqrt(discriminant)) \div a,
                        (-b + Sqrt(discriminant)) \div a)
    ELSE Outcome(FALSE, rec, <<>>)

SphereHitQuadratic(self, ray, t_min, t_max, rec, a, b, c) ==
    SphereHitDisc(self, ray, t_min, t_max, rec, a, b, (b * b) - (a * c))

SphereHit(self, ray, t_min, t_max, rec) ==
    SphereHitQuadratic(self, ray, t_min, t_max, rec,
                       dot(ray.direction, ray.direction),
                       dot(VSub(ray.origin, self.center), ray.direction),
                       dot(VSub(ray.origin, self.center), VSub(ray.origin, self.center))
                           - (self.radius * self.radius))

\* The quadratic of SphereHit has its roots on the grid.
SphereExact(self, ray) ==
    LET oc == VSub(ray.origin, self.center)
        a == dot(ray.direction, ray.direction)
        b == dot(oc, ray.direction)
        c == dot(oc, oc) - (self.radius * self.radius)
        discriminant == (b * b) - (a * c)
        s == Sqrt(discriminant)
    IN discriminant > 0 =>
          /\ s * s = discriminant
          /\ (-b - s) % a = 0
          /\ (-b + s) % a = 0

\* The rest of a rectangle's hit once the point (pp, qq) of the plane is known.
RectHitAt(self, ray, rec, t, pp, qq, p_0, p_1, q_0, q_1, normal) ==
    IF FLt(pp, p_0) \/ FGt(pp, p_1) \/ FLt(qq, q_0) \/ FGt(qq, q_1)
    THEN Outcome(FALSE, rec, <<>>)
    ELSE Outcome(TRUE,
                 [rec EXCEPT !.t = t,
                             !.hit_point = point_at_param(ray, t),
                             !.normal = Frac(normal, 1),
                             !.material = self.material,
                             !.u = Frac(FSub(pp, p_0), FSub(p_1, p_0)),
                             !.v = Frac(FSub(qq, q_0), FSub(q_1, q_0))],
                 <<>>)

\* The rest of a rectangle's hit once t is known.
RectHitT(self, ray, t_min, t_max, rec, p, q, p_0, p_1, q_0, q_1, normal, t) ==
    IF FLt(t, t_min) \/ FGt(t, t_max) THEN Outcome(FALSE, rec, <<>>)
    ELSE RectHitAt(self, ray, rec, t,
                   FAdd(ray.origin[p], FMul(t, ray.direction[p])),
                   FAdd(ray.origin[q], FMul(t, ray.direction[q])),
                   p_0, p_1, q_0, q_1, normal)

\* The three rectangles differ in the axis they are fixed on: fixed is that
\* axis, p and q the two others, in the order of the fields.
RectHit(self, ray, t_min, t_max, rec, fixed, p, q, p_0, p_1, q_0, q_1, normal) ==
    RectHitT(self, ray, t_min, t_max, rec, p, q, p_0, p_1, q_0, q_1, normal,
             FDiv(FSub(self.k, ray.origin[fixed]), ray.direction[fixed], ray.negz[fixed]))

XYRectHit(self, ray, t_min, t_max, rec) ==
    RectHit(self, ray, t_min, t_max, rec, 3, 1, 2,
            self.x_0, self.x_1, self.y_0, self.y_1, Vec3(0, 0, 1))

XZRectHit(self, ray, t_min, t_max, rec) ==
    RectHit(self, ray, t_min, t_max, rec, 2, 1, 3,
            self.x_0, self.x_1, self.z_0, self.z_1, Vec3(0, 1, 0))

\* YZRect tests z before y and reports u from y, v from z.
YZRectHit(self, ray, t_min, t_max, rec) ==
    RectHit(self, ray, t_min, t_max, rec, 1, 2, 3,
            self.y_0, self.y_1, self.z_0, self.z_1, Vec3(1, 0, 0))

\* ------------------------------------------------------------------------
\* MovingSphere
\* ------------------------------------------------------------------------

\* a / b where the grid holds the quotient, which the rays of the model are
\* chosen to make it; b is not 0.
Quotient(a, b) ==
    IF IsNaN(a) \/ IsNaN(b) THEN NaN
    ELSE IF b < 0 THEN (-a) \div (-b)
    ELSE a \div b

MovingSphere(radius, start_center, end_center, start_time, end_time, material) ==
    [kind |-> "MovingSphere", radius |-> radius,
     start_center |-> start_center, end_center |-> end_center,
     start_time |-> start_time, end_time |-> end_time, material |-> material]

\* One component of get_center.  With end_time = start_time the ratio is a
\* division by +0.0: infinite, or NaN for 0.0 / 0.0.  Otherwise the grid holds
\* the product for the spheres of the model.
CenterAt(self, time, i) ==
    IF self.end_time = self.start_time
    THEN FAdd(self.start_center[i],
              FMul(FDiv(time - self.start_time, 0, FALSE),
                   self.end_center[i] - self.start_center[i]))
    ELSE self.start_center[i]
         + Quotient((time - self.start_time) * (self.end_center[i] - self.start_center[i]),
                    self.end_time - self.start_time)

get_center(self, time) ==
    Vec3(CenterAt(self, time, 1), CenterAt(self, time, 2), CenterAt(self, time, 3))

\* The record of a hit at temp; u and v are not written.
MovingSphereHitAt(self, ray, temp, rec, center) ==
    [rec EXCEPT !.t = temp,
                !.hit_point = point_at_param(ray, temp),
                !.normal = Frac(VSub(point_at_param(ray, temp), center), self.radius),
                !.material = self.material]

\* The rest of hit once both roots are known.
MovingSphereHitRoots(self, ray, t_min, t_max, rec, center, temp1, temp2) ==
    IF FLt(temp1, t_max) /\ FGt(temp1, t_min)
    THEN Outcome(TRUE, MovingSphereHitAt(self, ray, temp1, rec, center), <<>>)
    ELSE IF FLt(temp2, t_max) /\ FGt(temp2, t_min)
    THEN Outcome(TRUE, MovingSphereHitAt(self, ray, temp2, rec, center), <<>>)
    ELSE Outcome(FALSE, rec, <<>>)

\* The rest of hit once the discriminant is known.
MovingSphereHitDisc(self, ray, t_min, t_max, rec, center, a, b, discriminant) ==
    IF FGt(discriminant, 0)
    THEN MovingSphereHitRoots(self, ray, t_min, t_max, rec, center,
                              Quotient(-b - Sqrt(discriminant), a),
                              Quotient(-b + Sqrt(discriminant), a))
    ELSE Outcome(FALSE, rec, <<>>)

\* The rest of hit once the centre at the ray's time is known.
MovingSphereHitFrom(self, ray, t_min, t_max, rec, center, oc) ==
    MovingSphereHitDisc(self, ray, t_min, t_max, rec, center,
                        dot(ray.direction, ray.direction),
                        dot(oc, ray.direction),
                        FSub(FMul(dot(oc, ray.direction), dot(oc, ray.direction)),
                             FMul(dot(ray.direction, ray.direction),
                                  FSub(dot(oc, oc), self.radius * self.radius))))

MovingSphereHit(self, ray, t_min, t_max, rec) ==
    MovingSphereHitFrom(self, ray, t_min, t_max, rec,
                        get_center(self, ray.time),
                        VSub(ray.origin, get_center(self, ray.time)))

\* The box of the sphere at the start of the window only.
MovingSphereBoundingBox_start(self, start_time, end_time) ==
    AABBNew(VSubScalar(get_center(self, start_time), self.radius),
            VAddScalar(get_center(self, start_time), self.radius))

MovingSphereBoundingBox(self, start_time, end_time) ==
    calc_surrounding_box(
        AABBNew(VSubScalar(get_center(self, start_time), self.radius),
                VAddScalar(get_center(self, start_time), self.radius)),
        AABBNew(VSubScalar(get_center(self, end_time), self.radius),
                VAddScalar(get_center(self, end_time), self.radius)))

\* The centre at the ray's time is on the grid, and so are the roots.
MovingSphereExact(self, ray) ==
    LET center == get_center(self, ray.time)
    IN (IsFinite(X(center)) /\ IsFinite(Y(center)) /\ IsFinite(Z(center))) =>
          SphereExact(Sphere(center, self.radius, self.material), ray)

\* ------------------------------------------------------------------------
\* Polygon
\* ------------------------------------------------------------------------

RECURSIVE PolygonBounds(_, _, _, _)
\* The loop of Polygon::bounding_box over vertices[i..].
PolygonBounds(vertices, i, min_bound, max_bound) ==
    IF i > Len(vertices) THEN AABBNew(min_bound, max_bound)
    ELSE LET vert == vertices[i]
         IN PolygonBounds(vertices, i + 1,
                          Vec3(FMin(X(vert), X(min_bound)),
                               FMin(Y(vert), Y(min_bound)),
                               FMin(Z(vert), Z(min_bound))),
                          Vec3(FMax(X(vert), X(max_bound)),
                               FMax(Y(vert), Y(max_bound)),
                               FMax(Z(vert), Z(max_bound))))

PolygonBoundingBox(vertices) ==
    PolygonBounds(vertices, 1,
                  Vec3(FLOAT_MAX, FLOAT_MAX, FLOAT_MAX),
                  Vec3(FLOAT_MIN, FLOAT_MIN, FLOAT_MIN))

cross(v1, v2) ==
    Vec3(FSub(FMul(Y(v1), Z(v2)), FMul(Z(v1), Y(v2))),
         FNeg(FSub(FMul(X(v1), Z(v2)), FMul(Z(v1), X(v2)))),
         FSub(FMul(X(v1), Y(v2)), FMul(Y(v1), X(v2))))

\* v / v.length(), as the fraction it is; 0.0 / 0.0 is NaN on every component.
unit_vector(v) ==
    IF v = Vec3(0, 0, 0) THEN Frac(Vec3(NaN, NaN, NaN), 1)
    ELSE Frac(v, Sqrt(dot(v, v)))

RECURSIVE PolygonNormalFrom(_, _, _)
\* The loop of Polygon::get_normal over i..n-1 (vertices are numbered from 1).
PolygonNormalFrom(vertices, i, normal) ==
    IF i > Len(vertices) THEN normal
    ELSE PolygonNormalFrom(vertices, i + 1,
                           VAdd(normal, cross(vertices[i], vertices[(i % Len(vertices)) + 1])))

get_normal(vertices) == PolygonNormalFrom(vertices, 1, Vec3(0, 0, 0))

\* Polygon::new
Polygon(vertices, material) ==
    [kind |-> "Polygon", vertices |-> vertices,
     normal |-> unit_vector(get_normal(vertices)),
     bounding_box |-> PolygonBoundingBox(vertices), material |-> material]

RECURSIVE is_point_in_poly(_, _, _, _, _, _, _)
\* The loop of is_point_in_poly from i on: pa and pb are the two axes the
\* polygon is projected on, j the vertex before i.
is_point_in_poly(vertices, pa, pb, u, v, i, answer) ==
    IF i > Len(vertices) THEN answer
    ELSE LET j == IF i = 1 THEN Len(vertices) ELSE i - 1
             xi == vertices[i][pa]
             yi == vertices[i][pb]
             xj == vertices[j][pa]
             yj == vertices[j][pb]
             crosses ==
                 /\ FGt(yi, v) /= FGt(yj, v)
                 /\ IF yj > yi
                    THEN (u - xi) * (yj - yi) < (xj - xi) * (v - yi)
                    ELSE (u - xi) * (yj - yi) > (xj - xi) * (v - yi)
         IN is_point_in_poly(vertices, pa, pb, u, v, i + 1,
                             IF crosses THEN ~answer ELSE answer)

\* The rest of Polygon::hit once the point of the plane is known: the axis of
\* least extent of the box is dropped, x before y before z.
PolygonHitAt(self, rec, t, hit_point, x_extent, y_extent, z_extent) ==
    LET least == FMin(FMin(x_extent, y_extent), z_extent)
        pa == IF least = x_extent THEN 2 ELSE 1
        pb == IF least = x_extent \/ least = y_extent THEN 3 ELSE 2
    IN IF ~is_point_in_poly(self.vertices, pa, pb, hit_point[pa], hit_point[pb], 1, FALSE)
       THEN Outcome(FALSE, rec, <<>>)
       ELSE Outcome(TRUE,
                    [rec EXCEPT !.t = t,
                                !.hit_point = hit_point,
                                !.normal = self.normal,
                                !.material = self.material],
                    <<>>)

\* The rest of Polygon::hit once t is known.
PolygonHitT(self, ray, t_min, t_max, rec, t) ==
    IF FLt(t, t_min) \/ FGt(t, t_max) THEN Outcome(FALSE, rec, <<>>)
    ELSE PolygonHitAt(self, rec, t, point_at_param(ray, t),
                      FSub(X(self.bounding_box.max_bound), X(self.bounding_box.min_bound)),
                      FSub(Y(self.bounding_box.max_bound), Y(self.bounding_box.min_bound)),
                      FSub(Z(self.bounding_box.max_bound), Z(self.bounding_box.min_bound)))

\* The rest of Polygon::hit once the denominator is known; the length of the
\* normal divides out of t.
PolygonHitOver(self, ray, t_min, t_max, rec, denominator) ==
    IF denominator = 0 THEN Outcome(FALSE, rec, <<>>)
    ELSE PolygonHitT(self, ray, t_min, t_max, rec,
                     Quotient(dot(self.normal.num, VSub(self.vertices[1], ray.origin)),
                              denominator))

PolygonHit(self, ray, t_min, t_max, rec) ==
    IF self.vertices = <<>> THEN Outcome(FALSE, rec, <<>>)
    ELSE PolygonHitOver(self, ray, t_min, t_max, rec, dot(self.normal.num, ray.direction))

\* The plane of the polygon is met at a t on the grid.
PolygonExact(self, ray) ==
    LET denominator == dot(self.normal.num, ray.direction)
    IN (self.vertices /= <<>> /\ ~IsNaN(denominator) /\ denominator /= 0) =>
          dot(self.normal.num, VSub(self.vertices[1], ray.origin))
              % (IF denominator < 0 THEN -denominator ELSE denominator) = 0

\* ------------------------------------------------------------------------
\* Containers: HitableList and BvhNode
\* ------------------------------------------------------------------------

Translate(hitable, offset) == [kind |-> "Translate", hitable |-> hitable, offset |-> offset]

FlipNormals(hitable) == [kind |-> "FlipNormals", hitable |-> hitable]

\* ConstantMedium::new.  draw is the value -(1.0 - x).ln() of the number x the
\* thread's generator yields at the next call of hit: 0 or more.
ConstantMedium(boundary, density, draw) ==
    [kind |-> "ConstantMedium", boundary |-> boundary, density |-> density,
     phase_func |-> "Isotropic", draw |-> draw]

AxisAlignedBlock(p_min, p_max, material) ==
    [kind |-> "AxisAlignedBlock", p_min |-> p_min, p_max |-> p_max,
     sides |-> HitableList(<<YZRect(Y(p_min), Y(p_max), Z(p_min), Z(p_max), X(p_max), material),
                             [kind |-> "FlipNormals",
                              hitable |-> YZRect(Y(p_min), Y(p_max), Z(p_min), Z(p_max), X(p_min), material)],
                             XYRect(X(p_min), X(p_max), Y(p_min), Y(p_max), Z(p_max), material),
                             [kind |-> "FlipNormals",
                              hitable |-> XYRect(X(p_min), X(p_max), Y(p_min), Y(p_max), Z(p_min), material)],
                             [kind |-> "FlipNormals",
                              hitable |-> XZRect(X(p_min), X(p_max), Z(p_min), Z(p_max), Y(p_min), material)],
                             XZRect(X(p_min), X(p_max), Z(p_min), Z(p_max), Y(p_max), material)>>)]

RECURSIVE BoundingBox(_, _, _)
RECURSIVE ListBoundingBox(_, _, _, _, _)

\* The loop of HitableList::bounding_box over list[i..].
ListBoundingBox(list, i, bounding_box, start_time, end_time) ==
    IF i > Len(list) THEN bounding_box
    ELSE LET temp_box == BoundingBox(list[i], start_time, end_time)
         IN IF temp_box = None THEN None
            ELSE ListBoundingBox(list, i + 1, calc_surrounding_box(bounding_box, temp_box),
                                 start_time, end_time)

\* Hitable::bounding_box: Some(box), or None.
BoundingBox(self, start_time, end_time) ==
    CASE self.kind = "Sphere" ->
           AABBNew(VSubScalar(self.center, self.radius), VAddScalar(self.center, self.radius))
      [] self.kind = "XYRect" ->
           AABBNew(Vec3(self.x_0, self.y_0, self.k - PAD), Vec3(self.x_1, self.y_1, self.k + PAD))
      [] self.kind = "XZRect" ->
           AABBNew(Vec3(self.x_0, self.k - PAD, self.z_0), Vec3(self.x_1, self.k + PAD, self.z_1))
      [] self.kind = "YZRect" ->
           AABBNew(Vec3(self.k - PAD, self.y_0, self.z_0), Vec3(self.k + PAD, self.y_1, self.z_1))
      [] self.kind = "AxisAlignedBlock" -> AABBNew(self.p_min, self.p_max)
      [] self.kind = "Polygon" -> PolygonBoundingBox(self.vertices)
      [] self.kind = "MovingSphere" -> MovingSphereBoundingBox(self, start_time, end_time)
      [] self.kind = "FlipNormals" -> BoundingBox(self.hitable, start_time, end_time)
      [] self.kind = "Translate" ->
           LET bound == BoundingBox(self.hitable, start_time, end_time)
           IN IF bound = None THEN None
              ELSE AABBNew(VAdd(bound.min_bound, self.offset), VAdd(bound.max_bound, self.offset))
      [] self.kind = "HitableList" ->
           IF self.list = <<>> THEN None
           ELSE LET first == BoundingBox(self.list[1], start_time, end_time)
                IN IF first = None THEN None
                   ELSE ListBoundingBox(self.list, 2, first, start_time, end_time)
      [] self.kind = "BvhNode" -> self.bounding_box
      [] self.kind = "RotateY" -> self.bounding_box
      [] self.kind = "ConstantMedium" -> BoundingBox(self.boundary, start_time, end_time)

\* ------------------------------------------------------------------------
\* RotateY::new
\* ------------------------------------------------------------------------

\* c * a for a factor c = c.num / c.den (a sine or a cosine) and an infinite a.
TurnInf(c, a) ==
    IF c.num = 0 THEN NaN
    ELSE IF (c.num > 0) = (a = PInf) THEN PInf ELSE NInf

\* c * a + s * b for the factors c and s, which share their denominator; the
\* grid holds the result for the points of the model.
Turn(c, a, s, b) ==
    IF IsNaN(a) \/ IsNaN(b) THEN NaN
    ELSE IF IsInf(a) \/ IsInf(b)
         THEN FAdd(IF IsInf(a) THEN TurnInf(c, a) ELSE Quotient(c.num * a, c.den),
                   IF IsInf(b) THEN TurnInf(s, b) ELSE Quotient(s.num * b, s.den))
    ELSE Quotient((c.num * a) + (s.num * b), c.den)

Minus(c) == [num |-> -c.num, den |-> c.den]

\* The corner n of the loops over i, j and k (k the innermost), rotated
\* clockwise about the Y axis.
RotatedCorner(bounding_box, sin_theta, cos_theta, n) ==
    LET i == n \div 4
        j == (n \div 2) % 2
        k == n % 2
        x == FAdd(FMul(i, X(bounding_box.max_bound)), FMul(1 - i, X(bounding_box.min_bound)))
        y == FAdd(FMul(j, Y(bounding_box.max_bound)), FMul(1 - j, Y(bounding_box.min_bound)))
        z == FAdd(FMul(k, Z(bounding_box.max_bound)), FMul(1 - k, Z(bounding_box.min_bound)))
    IN Vec3(Turn(cos_theta, x, sin_theta, z), y, Turn(Minus(sin_theta), x, cos_theta, z))

RECURSIVE RotateYBounds(_, _, _, _, _, _)
\* The loops of RotateY::new from corner n on.
RotateYBounds(bounding_box, sin_theta, cos_theta, n, min, max) ==
    IF n = 8 THEN AABBNew(min, max)
    ELSE LET temp_rotation == RotatedCorner(bounding_box, sin_theta, cos_theta, n)
         IN RotateYBounds(bounding_box, sin_theta, cos_theta, n + 1,
                          [i \in 1..3 |-> IF FLt(temp_rotation[i], min[i])
                                          THEN temp_rotation[i] ELSE min[i]],
                          [i \in 1..3 |-> IF FGt(temp_rotation[i], max[i])
                                          THEN temp_rotation[i] ELSE max[i]])

\* The box of the hitable as it is, not rotated.
RotateYBox_unrotated(bounding_box, sin_theta, cos_theta) == bounding_box

\* The box RotateY::new caches from the box of the hitable.
RotateYBox(bounding_box, sin_theta, cos_theta) ==
    RotateYBounds(bounding_box, sin_theta, cos_theta, 0,
                  Vec3(FLOAT_MAX, FLOAT_MAX, FLOAT_MAX),
                  Vec3(FLOAT_MIN, FLOAT_MIN, FLOAT_MIN))

\* RotateY::new.  The angle is given by its sine and cosine, two fractions
\* over one denominator.
RotateY(inner, sin_theta, cos_theta) ==
    LET bounding_box == BoundingBox(inner, 0, 1)
    IN IF bounding_box = None
       THEN [abort |-> "called Option::unwrap() on a None value"]
       ELSE [kind |-> "RotateY", hitable |-> inner,
             sin_theta |-> sin_theta, cos_theta |-> cos_theta,
             bounding_box |-> RotateYBox(bounding_box, sin_theta, cos_theta)]

RECURSIVE Hit(_, _, _, _, _)
RECURSIVE ListHitLoop(_, _, _, _, _, _, _, _)

\* One turn of the loop: out is what list[i] handed back.
ListHitNext(list, i, ray, t_min, current_closest, hit, calls, out) ==
    ListHitLoop(list, i + 1, ray, t_min,
                IF out.hit THEN out.rec.t ELSE current_closest,
                out.rec,
                hit \/ out.hit,
                Append(calls, Query(i, t_min, current_closest, out)))

\* The loop of HitableList::hit over list[i..]: each child is asked with the
\* caller's record and the closest t so far as its upper bound.
ListHitLoop(list, i, ray, t_min, current_closest, rec, hit, calls) ==
    IF i > Len(list) THEN Outcome(hit, rec, calls)
    ELSE ListHitNext(list, i, ray, t_min, current_closest, hit, calls,
                     Hit(list[i], ray, t_min, current_closest, rec))

HitableListHit(self, ray, t_min, t_max, rec) ==
    ListHitLoop(self.list, 1, ray, t_min, t_max, rec, FALSE, <<>>)

BvhCalls(t_min, t_max, left, right) ==
    <<Query("left", t_min, t_max, left), Query("right", t_min, t_max, right)>>

\* The rest of BvhNode::hit once both children have answered.
BvhNodePick(rec, t_min, t_max, left, right) ==
    IF left.hit /\ right.hit
    THEN (IF FLt(left.rec.t, right.rec.t)
          THEN Outcome(TRUE, RecFrom(rec, left.rec).self, BvhCalls(t_min, t_max, left, right))
          ELSE Outcome(TRUE, RecFrom(rec, right.rec).self, BvhCalls(t_min, t_max, left, right)))
    ELSE IF left.hit
    THEN Outcome(TRUE, RecFrom(rec, left.rec).self, BvhCalls(t_min, t_max, left, right))
    ELSE IF right.hit
    THEN Outcome(TRUE, RecFrom(rec, right.rec).self, BvhCalls(t_min, t_max, left, right))
    ELSE Outcome(FALSE, rec, BvhCalls(t_min, t_max, left, right))

\* A node that prefers its left child whenever the left child hits.
BvhNodeHit_left_first(self, ray, t_min, t_max, rec) ==
    IF ~AABBHit(self.bounding_box, ray, t_min, t_max) THEN Outcome(FALSE, rec, <<>>)
    ELSE
    LET left == Hit(self.left, ray, t_min, t_max, HitRecordNew)
        right == Hit(self.right, ray, t_min, t_max, HitRecordNew)
    IN IF left.hit
       THEN Outcome(TRUE, RecFrom(rec, left.rec).self, BvhCalls(t_min, t_max, left, right))
       ELSE IF right.hit
       THEN Outcome(TRUE, RecFrom(rec, right.rec).self, BvhCalls(t_min, t_max, left, right))
       ELSE Outcome(FALSE, rec, BvhCalls(t_min, t_max, left, right))

BvhNodeHit(self, ray, t_min, t_max, rec) ==
    IF ~AABBHit(self.bounding_box, ray, t_min, t_max) THEN Outcome(FALSE, rec, <<>>)
    ELSE BvhNodePick(rec, t_min, t_max,
                     Hit(self.left, ray, t_min, t_max, HitRecordNew),
                     Hit(self.right, ray, t_min, t_max, HitRecordNew))

\* A wrapper that turns the normal round whether the wrapped hitable was hit
\* or not.
FlipNormalsOut_always(t_min, t_max, out) ==
    Outcome(out.hit,
            [out.rec EXCEPT !.normal = Frac(VNeg(out.rec.normal.num), out.rec.normal.den)],
            <<Query(1, t_min, t_max, out)>>)

\* The rest of FlipNormals::hit once the wrapped hitable has answered.
FlipNormalsOut(t_min, t_max, out) ==
    IF out.hit
    THEN Outcome(TRUE,
                 [out.rec EXCEPT !.normal = Frac(VNeg(out.rec.normal.num), out.rec.normal.den)],
                 <<Query(1, t_min, t_max, out)>>)
    ELSE Outcome(FALSE, out.rec, <<Query(1, t_min, t_max, out)>>)

FlipNormalsHit(self, ray, t_min, t_max, rec) ==
    FlipNormalsOut(t_min, t_max, Hit(self.hitable, ray, t_min, t_max, rec))

\* The rest of Translate::hit once the wrapped hitable has answered.
TranslateOut(self, t_min, t_max, out) ==
    IF out.hit
    THEN Outcome(TRUE,
                 [out.rec EXCEPT !.hit_point = VAdd(out.rec.hit_point, self.offset)],
                 <<Query(1, t_min, t_max, out)>>)
    ELSE Outcome(FALSE, out.rec, <<Query(1, t_min, t_max, out)>>)

TranslateHit(self, ray, t_min, t_max, rec) ==
    TranslateOut(self, t_min, t_max,
                 Hit(self.hitable,
                     RayNew(VSub(ray.origin, self.offset), ray.direction, ray.negz, ray.time),
                     t_min, t_max, rec))

\* The sign bit of the product c * a, za the sign bit of a zero a.
ProductNegative(c, a, za) == (c.num < 0) /= (a < 0 \/ (a = 0 /\ za))

\* The sign bit of a sum of the products c * a and s * b that is zero: set
\* when both terms are zero and negative.
TurnNegZero(c, a, s, b, first_negative, second_negative) ==
    /\ (c.num = 0 \/ a = 0) /\ (s.num = 0 \/ b = 0)
    /\ first_negative /\ second_negative

\* The ray of RotateY::hit: origin and direction rotated counter-clockwise
\* about the Y axis.
RotatedRay(self, ray) ==
    RayNew(Vec3(Turn(self.cos_theta, X(ray.origin), Minus(self.sin_theta), Z(ray.origin)),
                Y(ray.origin),
                Turn(self.sin_theta, X(ray.origin), self.cos_theta, Z(ray.origin))),
           Vec3(Turn(self.cos_theta, X(ray.direction), Minus(self.sin_theta), Z(ray.direction)),
                Y(ray.direction),
                Turn(self.sin_theta, X(ray.direction), self.cos_theta, Z(ray.direction))),
           <<TurnNegZero(self.cos_theta, X(ray.direction), self.sin_theta, Z(ray.direction),
                         ProductNegative(self.cos_theta, X(ray.direction), ray.negz[1]),
                         ~ProductNegative(self.sin_theta, Z(ray.direction), ray.negz[3])),
             ray.negz[2],
             TurnNegZero(self.sin_theta, X(ray.direction), self.cos_theta, Z(ray.direction),
                         ProductNegative(self.sin_theta, X(ray.direction), ray.negz[1]),
                         ProductNegative(self.cos_theta, Z(ray.direction), ray.negz[3]))>>,
           ray.time)

\* The normal n.num / n.den rotated clockwise: the numerators are taken over
\* the denominator of the sine and cosine.
RotatedNormal(self, n) ==
    [num |-> Vec3(FAdd(FMul(self.cos_theta.num, X(n.num)), FMul(self.sin_theta.num, Z(n.num))),
                  FMul(self.cos_theta.den, Y(n.num)),
                  FAdd(FMul(-self.sin_theta.num, X(n.num)), FMul(self.cos_theta.num, Z(n.num)))),
     den |-> FMul(self.cos_theta.den, n.den)]

\* The rest of RotateY::hit once the wrapped hitable has answered.
RotateYOut(self, t_min, t_max, out) ==
    IF out.hit
    THEN Outcome(TRUE,
                 [out.rec EXCEPT
                    !.hit_point =
                       Vec3(Turn(self.cos_theta, X(out.rec.hit_point),
                                 self.sin_theta, Z(out.rec.hit_point)),
                            Y(out.rec.hit_point),
                            Turn(Minus(self.sin_theta), X(out.rec.hit_point),
                                 self.cos_theta, Z(out.rec.hit_point))),
                    !.normal = RotatedNormal(self, out.rec.normal)],
                 <<Query(1, t_min, t_max, out)>>)
    ELSE Outcome(FALSE, out.rec, <<Query(1, t_min, t_max, out)>>)

RotateYHit(self, ray, t_min, t_max, rec) ==
    RotateYOut(self, t_min, t_max,
               Hit(self.hitable, RotatedRay(self, ray), t_min, t_max, rec))

\* The 0.00001 that separates the two boundary hits of a medium: one unit of
\* the grid.
SEPARATION == 1

\* if rec_1.t < t_min { rec_1.t = t_min; }
ClampEntry(t, t_min) == IF FLt(t, t_min) THEN t_min ELSE t

\* An exit that is left where the boundary put it.
ClampExit_unclamped(t, t_max) == t

\* if rec_2.t > t_max { rec_2.t = t_max; }
ClampExit(t, t_max) == IF FGt(t, t_max) THEN t_max ELSE t

\* The rest of ConstantMedium::hit once the entry has been raised to 0: the
\* free-flight distance against the distance inside the boundary.
ConstantMediumInside(self, ray, rec, entry, exit, calls) ==
    IF FLt(Quotient(self.draw, self.density),
           FMul(FSub(exit, entry), Sqrt(dot(ray.direction, ray.direction))))
    THEN Outcome(TRUE,
                 [rec EXCEPT
                    !.t = FAdd(entry, Quotient(Quotient(self.draw, self.density),
                                               Sqrt(dot(ray.direction, ray.direction)))),
                    !.hit_point =
                       point_at_param(ray,
                          FAdd(entry, Quotient(Quotient(self.draw, self.density),
                                               Sqrt(dot(ray.direction, ray.direction))))),
                    !.normal = [num |-> Vec3(1, 0, 0), den |-> 1],
                    !.material = self.phase_func],
                 calls)
    ELSE Outcome(FALSE, rec, calls)

\* The rest of ConstantMedium::hit once both ends are clamped to the interval.
ConstantMediumClamped(self, ray, rec, entry, exit, calls) ==
    IF FGe(entry, exit) THEN Outcome(FALSE, rec, calls)
    ELSE ConstantMediumInside(self, ray, rec, IF FLt(entry, 0) THEN 0 ELSE entry, exit, calls)

\* The rest of ConstantMedium::hit once the boundary has answered again.
ConstantMediumExit(self, ray, t_min, t_max, rec, out_1, out_2) ==
    IF out_2.hit
    THEN ConstantMediumClamped(self, ray, rec,
                               ClampEntry(out_1.rec.t, t_min), ClampExit(out_2.rec.t, t_max),
                               <<Query(1, FLOAT_MIN, FLOAT_MAX, out_1),
                                 Query(1, FAdd(out_1.rec.t, SEPARATION), FLOAT_MAX, out_2)>>)
    ELSE Outcome(FALSE, rec, <<Query(1, FLOAT_MIN, FLOAT_MAX, out_1),
                               Query(1, FAdd(out_1.rec.t, SEPARATION), FLOAT_MAX, out_2)>>)

\* The rest of ConstantMedium::hit once the boundary has answered.
ConstantMediumEntry(self, ray, t_min, t_max, rec, out_1) ==
    IF out_1.hit
    THEN ConstantMediumExit(self, ray, t_min, t_max, rec, out_1,
                            Hit(self.boundary, ray, FAdd(out_1.rec.t, SEPARATION), FLOAT_MAX,
                                HitRecordNew))
    ELSE Outcome(FALSE, rec, <<Query(1, FLOAT_MIN, FLOAT_MAX, out_1)>>)

ConstantMediumHit(self, ray, t_min, t_max, rec) ==
    ConstantMediumEntry(self, ray, t_min, t_max, rec,
                        Hit(self.boundary, ray, FLOAT_MIN, FLOAT_MAX, HitRecordNew))

\* Hitable::hit, by the kind of self.
Hit(self, ray, t_min, t_max, rec) ==
    CASE self.kind = "Sphere" -> SphereHit(self, ray, t_min, t_max, rec)
      [] self.kind = "XYRect" -> XYRectHit(self, ray, t_min, t_max, rec)
      [] self.kind = "XZRect" -> XZRectHit(self, ray, t_min, t_max, rec)
      [] self.kind = "YZRect" -> YZRectHit(self, ray, t_min, t_max, rec)
      [] self.kind = "AxisAlignedBlock" -> HitableListHit(self.sides, ray, t_min, t_max, rec)
      [] self.kind = "FlipNormals" -> FlipNormalsHit(self, ray, t_min, t_max, rec)
      [] self.kind = "Translate" -> TranslateHit(self, ray, t_min, t_max, rec)
      [] self.kind = "HitableList" -> HitableListHit(self, ray, t_min, t_max, rec)
      [] self.kind = "Polygon" -> PolygonHit(self, ray, t_min, t_max, rec)
      [] self.kind = "MovingSphere" -> MovingSphereHit(self, ray, t_min, t_max, rec)
      [] self.kind = "RotateY" -> RotateYHit(self, ray, t_min, t_max, rec)
      [] self.kind = "ConstantMedium" -> ConstantMediumHit(self, ray, t_min, t_max, rec)
      [] self.kind = "BvhNode" -> BvhNodeHit(self, ray, t_min, t_max, rec)

\* ------------------------------------------------------------------------
\* BvhNode::new
\* ------------------------------------------------------------------------

\* The depth of nested calls at which the stack is exhausted.
MaxCallDepth == 2

\* The process ended: a panic (expect on None) or the stack ran out.
Abort(why) == [abort |-> why]
IsAbort(x) == "abort" \in DOMAIN x

\* a_min_bound / b_min_bound of sort_ord: the box is asked for over (0.0, 0.0).
SortKey(hitable, rand_axis) ==
    LET a_box == BoundingBox(hitable, 0, 0)
    IN CASE rand_axis = 0 -> X(a_box.min_bound)
         [] rand_axis = 1 -> Y(a_box.min_bound)
         [] OTHER -> Z(a_box.min_bound)

RECURSIVE InsertSorted(_, _, _)
\* e goes behind every element that does not compare greater: the sort is stable.
InsertSorted(sorted, e, rand_axis) ==
    IF sorted = <<>> THEN <<e>>
    ELSE IF FGt(SortKey(Head(sorted), rand_axis), SortKey(e, rand_axis))
         THEN <<e>> \o sorted
         ELSE <<Head(sorted)>> \o InsertSorted(Tail(sorted), e, rand_axis)

RECURSIVE SortedPrefix(_, _, _)
SortedPrefix(list, n, rand_axis) ==
    IF n = 0 THEN <<>>
    ELSE InsertSorted(SortedPrefix(list, n - 1, rand_axis), list[n], rand_axis)

\* hitable_list.list.sort_by(sort_ord)
SortBy(list, rand_axis) == SortedPrefix(list, Len(list), rand_axis)

\* The calls of BvhNode::new that a list of n elements reaches, root p: a
\* call on an empty list never gets past its left child.
RECURSIVE CallPaths(_, _, _)
CallPaths(n, p, depth) ==
    IF depth > MaxCallDepth THEN {}
    ELSE IF n = 1 \/ n = 2 THEN {p}
    ELSE IF n = 0 THEN {p} \cup CallPaths(0, 2 * p, depth + 1)
    ELSE {p} \cup CallPaths(n \div 2, 2 * p, depth + 1)
             \cup CallPaths(n - (n \div 2), 2 * p + 1, depth + 1)

\* A node that takes its left child for both children.
BvhNodeOf_left_twice(left, right, start_time, end_time) ==
    LET left_box == BoundingBox(left, start_time, end_time)
    IN IF left_box = None THEN Abort("No bounding box for left child!")
       ELSE [kind |-> "BvhNode", left |-> left, right |-> left,
             bounding_box |-> calc_surrounding_box(left_box, left_box)]

BvhNodeOf(left, right, start_time, end_time) ==
    LET left_box == BoundingBox(left, start_time, end_time)
        right_box == BoundingBox(right, start_time, end_time)
    IN IF left_box = None THEN Abort("No bounding box for left child!")
       ELSE IF right_box = None THEN Abort("No bounding box for right child!")
       ELSE [kind |-> "BvhNode", left |-> left, right |-> right,
             bounding_box |-> calc_surrounding_box(left_box, right_box)]

RECURSIVE BvhNew(_, _, _, _, _, _)
\* BvhNode::new; rand_axis_at[path] is the axis the call at path draws.
BvhNew(list, start_time, end_time, rand_axis_at, path, depth) ==
    IF depth > MaxCallDepth THEN Abort("stack overflow")
    ELSE
    LET rand_axis == rand_axis_at[path]
    IN IF Len(list) >= 2 /\ \E i \in 1..Len(list) : BoundingBox(list[i], 0, 0) = None
       THEN Abort("No bounding box for left child!")
       ELSE IF Len(list) >= 2 /\ \E i \in 1..Len(list) : IsNaN(SortKey(list[i], rand_axis))
       THEN Abort("called Option::unwrap() on a None value")
       ELSE
       LET sorted == SortBy(list, rand_axis)
           len == Len(sorted)
       IN CASE len = 1 -> BvhNodeOf(sorted[1], sorted[1], start_time, end_time)
            [] len = 2 -> BvhNodeOf(sorted[1], sorted[2], start_time, end_time)
            [] OTHER ->
               LET left_list == SubSeq(sorted, 1, len \div 2)
                   right_list == SubSeq(sorted, (len \div 2) + 1, len)
                   left == BvhNew(left_list, start_time, end_time, rand_axis_at,
                                  2 * path, depth + 1)
               IN IF IsAbort(left) THEN left
                  ELSE LET right == BvhNew(right_list, start_time, end_time, rand_axis_at,
                                           2 * path + 1, depth + 1)
                       IN IF IsAbort(right) THEN right
                          ELSE BvhNodeOf(left, right, start_time, end_time)

\* ------------------------------------------------------------------------
\* State
\* ------------------------------------------------------------------------

VARIABLES
    box_1, box_2,        \* the arguments of calc_surrounding_box
    surrounding,         \* calc_surrounding_box(box_1, box_2), None before the call
    swapped,             \* calc_surrounding_box(box_2, box_1), None before the call
    aabb, ray, interval, \* a box, a ray and the interval <<t_min, t_max>> it is asked over
    forward,             \* aabb.hit(ray, t_min, t_max), None before the call
    reversed,            \* aabb.hit(Ray(o, -d), -t_max, -t_min), None before the call
    hitable,             \* a constructed Hitable
    bbox,                \* Some(hitable.bounding_box(0.0, 0.0)), None before the call
    scene,               \* the list of a HitableList
    world,               \* BvhNode::new of the scene: a node or an Abort, None before the call
    query,               \* the ray and the interval asked of the scene and of the tree
    listOut,             \* the Outcome of HitableList::hit, None before the call
    bvhOut,              \* the Outcome of BvhNode::hit, None before the call
    sphere,              \* a Sphere, the ray aimed at its centre and the interval
    sphereOut,           \* the Outcome of Sphere::hit, None before the call
    materials,           \* the materials of the scene get_color traces
    stack,               \* the frames of get_color, outermost first
    ret,                 \* the values returned so far, innermost first
    pc,                  \* "call": the innermost frame is about to run; "return"; "done"
    prim,                \* a constructed Hitable with the ray, interval and time window asked of it
    primBox,             \* Some(prim.self.bounding_box(start_time, end_time)), None before the call
    primOut,             \* the Outcome of prim.self.hit(ray, t_min, t_max, rec), None before the call
    scatterIn,           \* a material, the direction of the incoming ray and the normal of the hit
    scatterOut,          \* what the material's scatter computed, None before the call
    num_threads,         \* main: the number of workers spawned per pixel
    pixel,               \* main: the index of the pixel of the loops over y and x
    child_threads,       \* main: the workers spawned for the pixel, in spawn order
    joined,              \* main: how many of child_threads have been joined
    color,               \* main: the accumulator of the pixel
    img_buff,            \* main: the pixels written so far
    medium,              \* a VariableMedium's noise along the ray and the distance inside
    hit_distance,        \* VariableMedium::hit: the accumulated free-flight distance
    mediumOut            \* what VariableMedium::hit returned, None while it runs

unionVars == <<box_1, box_2, surrounding, swapped>>
boxHitVars == <<aabb, ray, interval, forward, reversed>>
bboxVars == <<hitable, bbox>>
bvhVars == <<scene, world, query, listOut, bvhOut>>
sphereVars == <<sphere, sphereOut>>
colorVars == <<materials, stack, ret, pc>>
primVars == <<prim, primBox, primOut>>
scatterVars == <<scatterIn, scatterOut>>
renderVars == <<num_threads, pixel, child_threads, joined, color, img_buff>>
mediumVars == <<medium, hit_distance, mediumOut>>

vars == <<unionVars, boxHitVars, bboxVars, bvhVars, sphereVars, colorVars, primVars, scatterVars,
          renderVars, mediumVars>>

UnionIdle == box_1 = None /\ box_2 = None /\ surrounding = None /\ swapped = None
BoxHitIdle == aabb = None /\ ray = None /\ interval = None /\ forward = None /\ reversed = None
BBoxIdle == hitable = None /\ bbox = None
BvhIdle == scene = None /\ world = None /\ query = None /\ listOut = None /\ bvhOut = None
SphereIdle == sphere = None /\ sphereOut = None
ColorIdle == materials = None /\ stack = None /\ ret = None /\ pc = None
PrimIdle == prim = None /\ primBox = None /\ primOut = None
ScatterIdle == scatterIn = None /\ scatterOut = None
RenderIdle ==
    /\ num_threads = None /\ pixel = None /\ child_threads = None
    /\ joined = None /\ color = None /\ img_buff = None
MediumIdle == medium = None /\ hit_distance = None /\ mediumOut = None
OthersIdle == RenderIdle /\ MediumIdle

\* ------------------------------------------------------------------------
\* calc_surrounding_box
\* ------------------------------------------------------------------------

\* Box corners lie on 0..MaxCoord along x and on {0, 1} along y and z.
MaxCoord == 2

Points == {Vec3(x, y, z) : x \in 0..MaxCoord, y \in {0, 1}, z \in {0, 1}}

\* AxisAlignedBoundingBox::new takes any two corners; only well-formed boxes
\* (min <= max) are drawn along y and z, any pair along x.
Boxes ==
    {AABBNew(lo, hi) : <<lo, hi>> \in
        {<<l, h>> \in Points \X Points : Y(l) <= Y(h) /\ Z(l) <= Z(h)}}

WellFormed(box) ==
    /\ FLe(X(box.min_bound), X(box.max_bound))
    /\ FLe(Y(box.min_bound), Y(box.max_bound))
    /\ FLe(Z(box.min_bound), Z(box.max_bound))

Contains(box, p) ==
    /\ FLe(X(box.min_bound), X(p)) /\ FLe(X(p), X(box.max_bound))
    /\ FLe(Y(box.min_bound), Y(p)) /\ FLe(Y(p), Y(box.max_bound))
    /\ FLe(Z(box.min_bound), Z(p)) /\ FLe(Z(p), Z(box.max_bound))

InitUnion ==
    /\ box_1 \in Boxes
    /\ box_2 \in Boxes
    /\ surrounding = None
    /\ swapped = None
    /\ BoxHitIdle /\ BBoxIdle /\ BvhIdle /\ SphereIdle /\ ColorIdle /\ PrimIdle /\ ScatterIdle /\ OthersIdle

\* calc_surrounding_box(&box_1, &box_2): the arguments are shared borrows.
CalcSurroundingBox ==
    /\ box_1 /= None
    /\ surrounding = None
    /\ surrounding' = calc_surrounding_box(box_1, box_2)
    /\ UNCHANGED <<box_1, box_2, swapped>>
    /\ UNCHANGED <<boxHitVars, bboxVars, bvhVars, sphereVars, colorVars, primVars, scatterVars, renderVars, mediumVars>>

CalcSurroundingBoxSwapped ==
    /\ box_1 /= None
    /\ swapped = None
    /\ swapped' = calc_surrounding_box(box_2, box_1)
    /\ UNCHANGED <<box_1, box_2, surrounding>>
    /\ UNCHANGED <<boxHitVars, bboxVars, bvhVars, sphereVars, colorVars, primVars, scatterVars, renderVars, mediumVars>>

\* ------------------------------------------------------------------------
\* AxisAlignedBoundingBox::hit on a ray and on its reverse
\* ------------------------------------------------------------------------

\* Along x, ray origins lie up to Margin outside the boxes, which span 0..2.
Margin == 1

\* A direction component: -1, -0.0, +0.0 or 1, as <<value, sign bit of a zero>>.
Components == {<<-1, FALSE>>, <<0, TRUE>>, <<0, FALSE>>, <<1, FALSE>>}

HitBoxes == {AABBNew(Vec3(0, 0, 0), Vec3(2, 2, 2)), AABBNew(Vec3(0, 0, 1), Vec3(2, 2, 1))}

HitOrigins == {Vec3(x, y, z) : x \in (0 - Margin)..(2 + Margin), y \in {-1, 0, 1}, z \in {0, 1, 3}}

HitRays ==
    {RayNew(o, Vec3(dx[1], dy[1], dz[1]), <<dx[2], dy[2], dz[2]>>, 0) :
        o \in HitOrigins, dx \in Components, dy \in Components, dz \in Components}

Intervals == {<<0, FLOAT_MAX>>, <<0, 1>>, <<-2, 3>>, <<1, 2>>}

InitBoxHit ==
    /\ aabb \in HitBoxes
    /\ ray \in HitRays
    /\ interval \in Intervals
    /\ forward = None
    /\ reversed = None
    /\ UnionIdle /\ BBoxIdle /\ BvhIdle /\ SphereIdle /\ ColorIdle /\ PrimIdle /\ ScatterIdle /\ OthersIdle

AABBHitForward ==
    /\ aabb /= None
    /\ forward = None
    /\ forward' = Some(AABBHit(aabb, ray, interval[1], interval[2]))
    /\ UNCHANGED <<aabb, ray, interval, reversed>>
    /\ UNCHANGED <<unionVars, bboxVars, bvhVars, sphereVars, colorVars, primVars, scatterVars, renderVars, mediumVars>>

AABBHitReversed ==
    /\ aabb /= None
    /\ reversed = None
    /\ reversed' = Some(AABBHit(aabb, NegDirection(ray), FNeg(interval[2]), FNeg(interval[1])))
    /\ UNCHANGED <<aabb, ray, interval, forward>>
    /\ UNCHANGED <<unionVars, bboxVars, bvhVars, sphereVars, colorVars, primVars, scatterVars, renderVars, mediumVars>>

NextUnion == CalcSurroundingBox \/ CalcSurroundingBoxSwapped
SpecUnion == InitUnion /\ [][NextUnion]_vars

NextBoxHit == AABBHitForward \/ AABBHitReversed
SpecBoxHit == InitBoxHit /\ [][NextBoxHit]_vars

\* ------------------------------------------------------------------------
\* Hitable::bounding_box of constructed hitables
\* ------------------------------------------------------------------------

\* Spheres have radius 1..MaxRadius, polygons 0..MaxVertices vertices.
MaxRadius == 2
MaxVertices == 3

SeqsUpTo(S, n) == UNION {[1..k -> S] : k \in 0..n}

SphereCentres == {Vec3(0, 0, 0), Vec3(1, 1, -3)}
PolyPoints == {Vec3(0, 0, 0), Vec3(2, 0, 0), Vec3(0, 2, -1), Vec3(1, 1, 1)}

Spheres == {Sphere(c, r, "Lambertian") : c \in SphereCentres, r \in 1..MaxRadius}

Rects ==
    {XYRect(0, 2, 0, 2, -1, "Metal"), XZRect(0, 2, -2, 0, 1, "Metal"),
     YZRect(-1, 1, -2, 0, 0, "DiffuseLight")}

Blocks == {AxisAlignedBlock(Vec3(0, 0, 0), Vec3(w, 1, 1), "Lambertian") : w \in 1..MaxRadius}

Polygons == {Polygon(vertices, "Lambertian") : vertices \in SeqsUpTo(PolyPoints, MaxVertices)}

Simple == Spheres \cup Rects \cup Blocks

Hitables ==
    Simple \cup Polygons
    \cup {Translate(h, Vec3(1, -1, 0)) : h \in Simple}
    \cup {HitableList(list) : list \in SeqsUpTo(Rects \cup Blocks, 2)}
    \cup {BvhNew(<<a, b>>, 0, 0, [path \in {1} |-> axis], 1, 0) :
            a \in Spheres, b \in Rects, axis \in 0..2}

InitBBox ==
    /\ hitable \in Hitables
    /\ bbox = None
    /\ UnionIdle /\ BoxHitIdle /\ BvhIdle /\ SphereIdle /\ ColorIdle /\ PrimIdle /\ ScatterIdle /\ OthersIdle

\* hitable.bounding_box(0.0, 0.0)
BoundingBoxCall ==
    /\ hitable /= None
    /\ bbox = None
    /\ bbox' = Some(BoundingBox(hitable, 0, 0))
    /\ UNCHANGED hitable
    /\ UNCHANGED <<unionVars, boxHitVars, bvhVars, sphereVars, colorVars, primVars, scatterVars, renderVars, mediumVars>>

NextBBox == BoundingBoxCall
SpecBBox == InitBBox /\ [][NextBBox]_vars

\* ------------------------------------------------------------------------
\* A scene asked as a list and as the tree built from it
\* ------------------------------------------------------------------------

\* A scene holds 0..MaxPrims primitives, each at most once.
MaxPrims == 3

Universe ==
    {Sphere(Vec3(2, 1, -3), 1, "Lambertian"),
     XYRect(0, 4, 0, 2, -1, "Metal"),
     XYRect(0, 4, 0, 2, -5, "DiffuseLight"),
     YZRect(0, 2, -4, -2, 3, "Dielectric")}

Scenes ==
    {list \in SeqsUpTo(Universe, MaxPrims) :
        \A i, j \in 1..Len(list) : i /= j => list[i] /= list[j]}

QueryOrigins == {Vec3(0, 1, 0), Vec3(2, 1, 0), Vec3(2, 1, -7)}

QueryDirections ==
    {Vec3(0, 0, -1), Vec3(1, 0, -1), Vec3(-1, 0, -1), Vec3(0, 1, -1), Vec3(0, 0, 1), Vec3(1, 0, 0)}

QueryIntervals == {<<0, FLOAT_MAX>>, <<2, 6>>}

\* Every sphere of the list has the roots of its quadratic on the grid.
SceneExact(list, r) ==
    \A i \in 1..Len(list) : list[i].kind = "Sphere" => SphereExact(list[i], r)

Queries ==
    {[ray |-> RayNew(o, d, NoNegZero, 0), t_min |-> iv[1], t_max |-> iv[2]] :
        o \in QueryOrigins, d \in QueryDirections, iv \in QueryIntervals}

InitBvh ==
    /\ scene \in Scenes
    /\ query = None
    /\ world = None
    /\ listOut = None
    /\ bvhOut = None
    /\ UnionIdle /\ BoxHitIdle /\ BBoxIdle /\ SphereIdle /\ ColorIdle /\ PrimIdle /\ ScatterIdle /\ OthersIdle

\* BvhNode::new(&mut HitableList { list: scene }, 0.0, 0.0); every call draws
\* its axis at random.
BvhBuild ==
    /\ world = None
    /\ \E rand_axis_at \in [CallPaths(Len(scene), 1, 0) -> 0..2] :
          world' = BvhNew(scene, 0, 0, rand_axis_at, 1, 0)
    /\ UNCHANGED <<scene, query, listOut, bvhOut>>
    /\ UNCHANGED <<unionVars, boxHitVars, bboxVars, sphereVars, colorVars, primVars, scatterVars, renderVars, mediumVars>>

\* The list and the tree are asked the same query: whichever is asked first
\* fixes it.
Asked(q) == (query = None \/ query = q) /\ SceneExact(scene, q.ray)

\* HitableList { list: scene }.hit(ray, t_min, t_max, rec) on a fresh record.
ListHitCall ==
    /\ listOut = None
    /\ \E q \in Queries :
          /\ Asked(q)
          /\ query' = q
          /\ listOut' = HitableListHit(HitableList(scene), q.ray, q.t_min, q.t_max, HitRecordNew)
    /\ UNCHANGED <<scene, world, bvhOut>>
    /\ UNCHANGED <<unionVars, boxHitVars, bboxVars, sphereVars, colorVars, primVars, scatterVars, renderVars, mediumVars>>

\* world.hit(ray, t_min, t_max, rec) on a fresh record, once the tree stands.
BvhHitCall ==
    /\ world /= None
    /\ ~IsAbort(world)
    /\ bvhOut = None
    /\ \E q \in Queries :
          /\ Asked(q)
          /\ query' = q
          /\ bvhOut' = BvhNodeHit(world, q.ray, q.t_min, q.t_max, HitRecordNew)
    /\ UNCHANGED <<scene, world, listOut>>
    /\ UNCHANGED <<unionVars, boxHitVars, bboxVars, sphereVars, colorVars, primVars, scatterVars, renderVars, mediumVars>>

NextBvh == BvhBuild \/ ListHitCall \/ BvhHitCall
SpecBvh == InitBvh /\ [][NextBvh]_vars

\* ------------------------------------------------------------------------
\* Sphere::hit of a ray aimed at the centre
\* ------------------------------------------------------------------------

\* The origin lies radius + 1..MaxGap from the centre; the interval starts at
\* an epsilon of 0..MaxEpsilon grid units, 0 standing for an epsilon below
\* the grid: no root on the grid lies between 0 and such an epsilon.
MaxGap == 3
MaxEpsilon == 2

AimCentres == {Vec3(0, 0, -2), Vec3(0, 0, 0), Vec3(1, -1, 2)}

UnitDirections ==
    {Vec3(1, 0, 0), Vec3(-1, 0, 0), Vec3(0, 1, 0), Vec3(0, -1, 0), Vec3(0, 0, 1), Vec3(0, 0, -1)}

Aimed ==
    {[self |-> Sphere(c, r, "Lambertian"),
      ray |-> RayNew(VSub(c, VScale(r + gap, dir)), dir, NoNegZero, 0),
      t_min |-> epsilon,
      t_max |-> FLOAT_MAX] :
        c \in AimCentres, r \in 1..MaxRadius, gap \in 1..MaxGap,
        dir \in UnitDirections, epsilon \in 0..MaxEpsilon}

InitSphere ==
    /\ sphere \in Aimed
    /\ sphereOut = None
    /\ UnionIdle /\ BoxHitIdle /\ BBoxIdle /\ BvhIdle /\ ColorIdle /\ PrimIdle /\ ScatterIdle /\ OthersIdle

\* sphere.hit(ray, epsilon, FLOAT_MAX, rec) on a fresh record
SphereHitCall ==
    /\ sphere /= None
    /\ sphereOut = None
    /\ sphereOut' = SphereHit(sphere.self, sphere.ray, sphere.t_min, sphere.t_max, HitRecordNew)
    /\ UNCHANGED sphere
    /\ UNCHANGED <<unionVars, boxHitVars, bboxVars, bvhVars, colorVars, primVars, scatterVars, renderVars, mediumVars>>

NextSphere == SphereHitCall
SpecSphere == InitSphere /\ [][NextSphere]_vars

\* ------------------------------------------------------------------------
\* get_color
\* ------------------------------------------------------------------------

MAX_DEPTH == 10

Black == Vec3(0, 0, 0)
White == Vec3(1, 1, 1)

\* A texture is the ConstantTexture of its colour.
Lambertian(albedo) == [kind |-> "Lambertian", albedo |-> albedo]
Metal(albedo, emittance_albedo) ==
    [kind |-> "Metal", albedo |-> albedo, emittance_albedo |-> emittance_albedo]
Dielectric(refractive_index) ==
    [kind |-> "Dielectric", refractive_index |-> refractive_index]
DiffuseLight(texture) == [kind |-> "DiffuseLight", texture |-> texture]
Isotropic(albedo) == [kind |-> "Isotropic", albedo |-> albedo]
\* Glossy::new: the refractive index is 1.45.
Glossy(albedo) ==
    [kind |-> "Glossy", albedo |-> albedo, specular_albedo |-> White, emittance_albedo |-> Black,
     refractive_index |-> Rat(29, 20)]
NoMaterial == [kind |-> "None"]

Scattered(attenuation, did_scatter) ==
    [attenuation |-> attenuation, did_scatter |-> did_scatter]

\* Material::scatter, as the set of (attenuation, did_scatter) it can hand
\* back over the random draws and the geometry of the hit; for a record
\* without material, the tuple get_color puts in its place.
Scatter(mat) ==
    CASE mat.kind = "Lambertian" -> {Scattered(mat.albedo, TRUE)}
      [] mat.kind = "Metal" -> {Scattered(mat.albedo, d) : d \in BOOLEAN}
      [] mat.kind = "Dielectric" -> {Scattered(White, TRUE)}
      [] mat.kind = "DiffuseLight" -> {Scattered(Black, FALSE)}
      [] mat.kind = "Isotropic" -> {Scattered(mat.albedo, TRUE)}
      [] mat.kind = "Glossy" ->
           {Scattered(a, d) : a \in {mat.specular_albedo, mat.albedo}, d \in BOOLEAN}
      [] mat.kind = "None" -> {Scattered(Black, FALSE)}

\* Material::emit
Emit(mat) ==
    CASE mat.kind = "Metal" -> mat.emittance_albedo
      [] mat.kind = "DiffuseLight" -> mat.texture
      [] mat.kind = "Glossy" -> mat.emittance_albedo
      [] OTHER -> Black

\* A call that recurses one level past MAX_DEPTH.
Recurses_inclusive(depth, did_scatter) == depth <= MAX_DEPTH /\ did_scatter

Recurses(depth, did_scatter) == depth < MAX_DEPTH /\ did_scatter

\* The inner colour taken away instead of added.
Combine_minus(emitted_light, attenuation, inner) == VSub(emitted_light, VMul(attenuation, inner))

\* The inner colour added without its attenuation.
Combine_unattenuated(emitted_light, attenuation, inner) == VAdd(emitted_light, inner)

\* emitted_light + attenuation * get_color(&scattered_ray, world, depth + 1)
Combine(emitted_light, attenuation, inner) == VAdd(emitted_light, VMul(attenuation, inner))

Frame(depth, hit, mat, emitted_light, attenuation, did_scatter) ==
    [depth |-> depth, hit |-> hit, material |-> mat, emitted_light |-> emitted_light,
     attenuation |-> attenuation, did_scatter |-> did_scatter]

Worlds ==
    {{Metal(White, Vec3(1, 0, 0))},
     {Lambertian(Vec3(1, 0, 2)), DiffuseLight(Vec3(2, 2, 1))},
     {Dielectric(Rat(3, 2)), NoMaterial},
     {Glossy(Vec3(0, 1, 1)), DiffuseLight(Vec3(0, 3, 0))},
     {Isotropic(Vec3(1, 1, 0)), DiffuseLight(Vec3(2, 0, 1))}}

InitColor ==
    /\ materials \in Worlds
    /\ stack = <<>>
    /\ ret = <<>>
    /\ pc = "call"
    /\ UnionIdle /\ BoxHitIdle /\ BBoxIdle /\ BvhIdle /\ SphereIdle /\ PrimIdle /\ ScatterIdle /\ OthersIdle

\* After the innermost call has returned: the caller resumes, or the
\* outermost call is through.
AfterReturn(frames) == IF Len(frames) = 1 THEN "done" ELSE "return"

\* get_color(ray, world, depth) when world.hit answers true: up to the
\* recursive call, or to the return of emitted_light.
GetColorHit ==
    /\ pc = "call"
    /\ \E mat \in materials : \E s \in Scatter(mat) :
          LET depth == Len(stack)
              frame == Frame(depth, TRUE, mat, Emit(mat), s.attenuation, s.did_scatter)
          IN /\ stack' = Append(stack, frame)
             /\ IF Recurses(depth, s.did_scatter)
                THEN pc' = "call" /\ ret' = ret
                ELSE pc' = AfterReturn(stack') /\ ret' = <<frame.emitted_light>>
    /\ UNCHANGED materials
    /\ UNCHANGED <<unionVars, boxHitVars, bboxVars, bvhVars, sphereVars, primVars, scatterVars, renderVars, mediumVars>>

\* get_color(ray, world, depth) when world.hit answers false.
GetColorMiss ==
    /\ pc = "call"
    /\ stack' = Append(stack, Frame(Len(stack), FALSE, NoMaterial, Black, Black, FALSE))
    /\ ret' = <<Black>>
    /\ pc' = AfterReturn(stack')
    /\ UNCHANGED materials
    /\ UNCHANGED <<unionVars, boxHitVars, bboxVars, bvhVars, sphereVars, primVars, scatterVars, renderVars, mediumVars>>

\* The rest of a call that recursed, once the inner call has returned.
GetColorReturn ==
    /\ pc = "return"
    /\ LET caller == stack[Len(stack) - Len(ret)]
       IN /\ ret' = Append(ret, Combine(caller.emitted_light, caller.attenuation, ret[Len(ret)]))
          /\ pc' = IF caller.depth = 0 THEN "done" ELSE "return"
    /\ UNCHANGED <<materials, stack>>
    /\ UNCHANGED <<unionVars, boxHitVars, bboxVars, bvhVars, sphereVars, primVars, scatterVars, renderVars, mediumVars>>

NextColor == GetColorHit \/ GetColorMiss \/ GetColorReturn
SpecColor == InitColor /\ [][NextColor]_vars

\* The thread that called get_color runs it to its end.
SpecColorFair == SpecColor /\ WF_vars(NextColor)

\* ------------------------------------------------------------------------
\* A hitable asked for its box and for a hit
\* ------------------------------------------------------------------------

Asking(self, r, t_min, t_max, start_time, end_time) ==
    [self |-> self, ray |-> r, t_min |-> t_min, t_max |-> t_max,
     start_time |-> start_time, end_time |-> end_time]

\* prim.self.bounding_box(start_time, end_time)
PrimBoxCall ==
    /\ prim /= None
    /\ primBox = None
    /\ primBox' = Some(BoundingBox(prim.self, prim.start_time, prim.end_time))
    /\ UNCHANGED <<prim, primOut>>
    /\ UNCHANGED <<unionVars, boxHitVars, bboxVars, bvhVars, sphereVars, colorVars, scatterVars, renderVars, mediumVars>>

\* prim.self.hit(ray, t_min, t_max, rec) on a fresh record
PrimHitCall ==
    /\ prim /= None
    /\ primOut = None
    /\ primOut' = Hit(prim.self, prim.ray, prim.t_min, prim.t_max, HitRecordNew)
    /\ UNCHANGED <<prim, primBox>>
    /\ UNCHANGED <<unionVars, boxHitVars, bboxVars, bvhVars, sphereVars, colorVars, scatterVars, renderVars, mediumVars>>

NextPrim == PrimBoxCall \/ PrimHitCall

\* ------------------------------------------------------------------------
\* Rectangles and rays that run along their planes
\* ------------------------------------------------------------------------

RectOrigins == {Vec3(x, y, z) : x \in {-1, 1, 3}, y \in {-1, 1}, z \in {-1, 1, 3}}

\* Every direction with components in {-1, -0.0, +0.0, 1} but the zero vector.
RectRays ==
    {RayNew(o, Vec3(dx[1], dy[1], dz[1]), <<dx[2], dy[2], dz[2]>>, 0) :
        o \in RectOrigins,
        <<dx, dy, dz>> \in {d \in Components \X Components \X Components :
                              d[1][1] /= 0 \/ d[2][1] /= 0 \/ d[3][1] /= 0}}

RectPlanes ==
    {XYRect(0, 4, 0, 2, -1, "Metal"), XZRect(0, 4, -2, 0, 1, "Lambertian"),
     YZRect(0, 2, -4, -2, 3, "DiffuseLight")}

InitRect ==
    /\ prim \in {Asking(self, r, iv[1], iv[2], 0, 0) :
                    self \in RectPlanes, r \in RectRays, iv \in {<<0, FLOAT_MAX>>, <<1, 5>>}}
    /\ primBox = None
    /\ primOut = None
    /\ UnionIdle /\ BoxHitIdle /\ BBoxIdle /\ BvhIdle /\ SphereIdle /\ ColorIdle /\ ScatterIdle /\ OthersIdle

SpecRect == InitRect /\ [][NextPrim]_vars

\* ------------------------------------------------------------------------
\* Polygons of 0..MaxVertices vertices
\* ------------------------------------------------------------------------

\* Four corners of a square in the plane z = -2 and a point behind it.
PolyCorners == {Vec3(0, 0, -2), Vec3(4, 0, -2), Vec3(4, 4, -2), Vec3(0, 4, -2), Vec3(0, 0, -4)}

PolyRays ==
    {RayNew(o, d, NoNegZero, 0) :
        o \in {Vec3(1, 1, 0), Vec3(3, 2, 0), Vec3(1, 1, -2), Vec3(5, 5, 0)},
        d \in {Vec3(0, 0, -1), Vec3(0, 0, 1), Vec3(1, 0, 0), Vec3(0, -1, -1)}}

\* The normal has a length on the grid, or is the zero vector.
PolygonUnit(vertices) ==
    LET n == get_normal(vertices)
    IN Sqrt(dot(n, n)) * Sqrt(dot(n, n)) = dot(n, n)

\* A triangle in a plane that holds the z axis, least wide along z, and rays
\* along and against its normal.
UprightTriangle == <<Vec3(0, 0, 0), Vec3(8, -6, 0), Vec3(8, -6, 4)>>

UprightRays ==
    {RayNew(o, d, NoNegZero, 0) :
        o \in {Vec3(1, -7, 1), Vec3(7, 1, 1), Vec3(1, -7, 3)},
        d \in {Vec3(3, 4, 0), Vec3(-3, -4, 0)}}

InitPolygon ==
    /\ prim \in {Asking(Polygon(vertices, "Lambertian"), r, 0, FLOAT_MAX, 0, 0) :
                    <<vertices, r>> \in
                        {q \in (SeqsUpTo(PolyCorners, MaxVertices) \X PolyRays)
                                 \cup ({UprightTriangle} \X UprightRays) :
                            /\ PolygonUnit(q[1])
                            /\ PolygonExact(Polygon(q[1], "Lambertian"), q[2])}}
    /\ primBox = None
    /\ primOut = None
    /\ UnionIdle /\ BoxHitIdle /\ BBoxIdle /\ BvhIdle /\ SphereIdle /\ ColorIdle /\ ScatterIdle /\ OthersIdle

SpecPolygon == InitPolygon /\ [][NextPrim]_vars

\* ------------------------------------------------------------------------
\* Hitables nested in lists, nodes and wrappers
\* ------------------------------------------------------------------------

NestLeaves ==
    {Sphere(Vec3(2, 1, -3), 1, "Lambertian"),
     XYRect(0, 4, 0, 2, -1, "Metal"),
     Translate(AxisAlignedBlock(Vec3(0, 0, 0), Vec3(2, 2, 2), "Dielectric"), Vec3(0, 0, -8)),
     FlipNormals(XYRect(0, 4, 0, 2, -5, "DiffuseLight")),
     Polygon(<<Vec3(0, 0, -2), Vec3(4, 0, -2), Vec3(0, 4, -2)>>, "Glossy")}

\* Lists and nodes of leaves, a node in a list, and a list and a node in a node.
Nested ==
    NestLeaves
    \cup {HitableList(<<a, b>>) : a, b \in NestLeaves}
    \cup {BvhNodeOf(a, b, 0, 0) : a, b \in NestLeaves}
    \cup {HitableList(<<BvhNodeOf(a, b, 0, 0), c>>) : a, b, c \in NestLeaves}
    \cup {BvhNodeOf(HitableList(<<a, b>>), BvhNodeOf(c, c, 0, 0), 0, 0) : a, b, c \in NestLeaves}

RECURSIVE AllExact(_, _)
\* Every sphere and polygon in self is met at a t on the grid.
AllExact(self, r) ==
    CASE self.kind = "Sphere" -> SphereExact(self, r)
      [] self.kind = "Polygon" -> PolygonExact(self, r)
      [] self.kind = "HitableList" -> \A i \in 1..Len(self.list) : AllExact(self.list[i], r)
      [] self.kind = "BvhNode" -> AllExact(self.left, r) /\ AllExact(self.right, r)
      [] self.kind = "FlipNormals" -> AllExact(self.hitable, r)
      [] self.kind = "Translate" ->
           AllExact(self.hitable, RayNew(VSub(r.origin, self.offset), r.direction, r.negz, r.time))
      [] OTHER -> TRUE

InitNested ==
    /\ prim \in {Asking(q[1], q[2], 0, FLOAT_MAX, 0, 0) :
                    q \in {n \in Nested \X {RayNew(o, d, NoNegZero, 0) :
                                                o \in QueryOrigins, d \in QueryDirections} :
                              AllExact(n[1], n[2])}}
    /\ primBox = None
    /\ primOut = None
    /\ UnionIdle /\ BoxHitIdle /\ BBoxIdle /\ BvhIdle /\ SphereIdle /\ ColorIdle /\ ScatterIdle /\ OthersIdle

SpecNested == InitNested /\ [][NextPrim]_vars

\* ------------------------------------------------------------------------
\* Dielectric::scatter and Glossy::scatter: the reflectance
\* ------------------------------------------------------------------------

One == Rat(1, 1)
Zero == Rat(0, 1)

\* A reflectance whose r0 is left unsquared.
schlick_approx_unsquared(cosine, refractive_index) ==
    LET r0 == RDiv(RSub(One, refractive_index), RAdd(One, refractive_index))
    IN RAdd(r0, RMul(RSub(One, r0), powi(RSub(One, cosine), 5)))

schlick_approx(cosine, refractive_index) ==
    LET r0 == RDiv(RSub(One, refractive_index), RAdd(One, refractive_index))
        r0_squared == RMul(r0, r0)
    IN RAdd(r0_squared, RMul(RSub(One, r0_squared), powi(RSub(One, cosine), 5)))

\* Vec3::length, on the grid for the directions of the model.
length(v) == Sqrt(dot(v, v))

\* dot(dir, norm) for a normal kept as a fraction.
DotNormal(dir, norm) == Rat(dot(dir, norm.num), norm.den)

\* utils::reflect: dir - 2 * dot(dir, norm) * norm
reflect(dir, norm) ==
    Frac(VSub(VScale(norm.den * norm.den, dir), VScale(2 * dot(dir, norm.num), norm.num)),
         norm.den * norm.den)

\* utils::refract: None when the discriminant is not positive; the refracted
\* direction is kept as the terms it is computed from.
refract(dir, norm, ni_over_nt) ==
    LET dt == RDiv(DotNormal(dir, norm), Rat(length(dir), 1))
        discriminant == RSub(One, RMul(RMul(ni_over_nt, ni_over_nt), RSub(One, RMul(dt, dt))))
    IN IF RGt(discriminant, Zero)
       THEN Some([ni_over_nt |-> ni_over_nt, dt |-> dt, sqrt_of |-> discriminant,
                  dir |-> dir, norm |-> norm])
       ELSE None

\* What a scatter computed on its way: the cosine, the reflectance Schlick's
\* approximation gave for it (None where it was not asked), the probability
\* the random draw is compared with, and the tuple handed back.
Scattering(cosine, schlick, reflect_probability, scattered, attenuation, did_scatter) ==
    [cosine |-> cosine, schlick |-> schlick, reflect_probability |-> reflect_probability,
     scattered |-> scattered, attenuation |-> attenuation, did_scatter |-> did_scatter]

\* A scatter that asks Schlick's approximation for the reflectance whether
\* there is a refracted direction or not.
DielectricScatterOn_always_schlick(self, direction, normal, draw, outward_normal, ni_over_nt, cosine) ==
    LET refracted == refract(direction, outward_normal, ni_over_nt)
        schlick == IF refracted = None THEN None
                   ELSE Some(schlick_approx(cosine, self.refractive_index))
        reflect_probability == schlick_approx(cosine, self.refractive_index)
    IN Scattering(cosine, schlick, reflect_probability,
                  IF RLe(draw, reflect_probability)
                  THEN reflect(direction, normal)
                  ELSE IF refracted = None THEN Frac(Vec3(0, 0, 0), 1) ELSE refracted.some,
                  White, TRUE)

\* The rest of Dielectric::scatter once the side of the surface is known.
DielectricScatterOn(self, direction, normal, draw, outward_normal, ni_over_nt, cosine) ==
    LET refracted == refract(direction, outward_normal, ni_over_nt)
        schlick == IF refracted = None THEN None
                   ELSE Some(schlick_approx(cosine, self.refractive_index))
        reflect_probability == IF refracted = None THEN One ELSE schlick.some
    IN Scattering(cosine, schlick, reflect_probability,
                  IF RLe(draw, reflect_probability)
                  THEN reflect(direction, normal)
                  ELSE IF refracted = None THEN Frac(Vec3(0, 0, 0), 1) ELSE refracted.some,
                  White, TRUE)

\* Dielectric::scatter; draw is range.sample(&mut rng).
DielectricScatter(self, direction, normal, draw) ==
    LET dot_prod == DotNormal(direction, normal)
    IN IF RGt(dot_prod, Zero)
       THEN DielectricScatterOn(self, direction, normal, draw,
                                Frac(VNeg(normal.num), normal.den),
                                self.refractive_index,
                                RDiv(RMul(self.refractive_index, dot_prod),
                                     Rat(length(direction), 1)))
       ELSE DielectricScatterOn(self, direction, normal, draw,
                                normal,
                                RDiv(One, self.refractive_index),
                                RDiv(RNeg(dot_prod), Rat(length(direction), 1)))

\* Glossy::scatter; outward is whether the scattered direction, which
\* depends on random_point_in_unit_sphere, has a positive dot product with
\* the normal.
GlossyScatter(self, direction, normal, draw, outward) ==
    LET cosine == RNeg(RDiv(DotNormal(direction, normal), Rat(length(direction), 1)))
        schlick == schlick_approx(cosine, self.refractive_index)
    IN Scattering(cosine, Some(schlick), schlick,
                  IF RLe(draw, schlick) THEN "specular" ELSE "diffuse",
                  IF RLe(draw, schlick) THEN self.specular_albedo ELSE self.albedo,
                  outward)

\* Directions of length 1, 2 and 5, towards the surface, away from it and along it.
ScatterDirections ==
    {Vec3(0, 0, -1), Vec3(0, 0, 1), Vec3(0, 0, -2), Vec3(3, 0, -4), Vec3(3, 0, 4),
     Vec3(4, 0, -3), Vec3(-4, 0, 3), Vec3(1, 0, 0)}

ScatterNormals ==
    {Frac(Vec3(0, 0, 1), 1), Frac(Vec3(0, 0, -1), 1), Frac(Vec3(1, 0, 0), 1), Frac(Vec3(-1, 0, 0), 1)}

\* Glass (1.5), diamond (2.4), and an index of 2.
ScatterMaterials ==
    {Dielectric(Rat(3, 2)), Dielectric(Rat(12, 5)), Dielectric(Rat(2, 1)), Glossy(Vec3(1, 0, 1))}

Draws == {Zero, Rat(1, 25), Rat(1, 2), One}

InitScatter ==
    /\ scatterIn \in [material : ScatterMaterials, direction : ScatterDirections,
                       normal : ScatterNormals]
    /\ scatterOut = None
    /\ UnionIdle /\ BoxHitIdle /\ BBoxIdle /\ BvhIdle /\ SphereIdle /\ ColorIdle /\ PrimIdle /\ OthersIdle

\* Dielectric::scatter(input_ray, hit_record)
DielectricScatterCall ==
    /\ scatterIn /= None
    /\ scatterOut = None
    /\ scatterIn.material.kind = "Dielectric"
    /\ \E draw \in Draws :
          scatterOut' = DielectricScatter(scatterIn.material, scatterIn.direction,
                                          scatterIn.normal, draw)
    /\ UNCHANGED scatterIn
    /\ UNCHANGED <<unionVars, boxHitVars, bboxVars, bvhVars, sphereVars, colorVars, primVars, renderVars, mediumVars>>

\* Glossy::scatter(input_ray, hit_record)
GlossyScatterCall ==
    /\ scatterIn /= None
    /\ scatterOut = None
    /\ scatterIn.material.kind = "Glossy"
    /\ \E draw \in Draws : \E outward \in BOOLEAN :
          scatterOut' = GlossyScatter(scatterIn.material, scatterIn.direction,
                                      scatterIn.normal, draw, outward)
    /\ UNCHANGED scatterIn
    /\ UNCHANGED <<unionVars, boxHitVars, bboxVars, bvhVars, sphereVars, colorVars, primVars, renderVars, mediumVars>>

NextScatter == DielectricScatterCall \/ GlossyScatterCall
SpecScatter == InitScatter /\ [][NextScatter]_vars

\* ------------------------------------------------------------------------
\* BvhNode::new over a time window, on scenes with moving spheres
\* ------------------------------------------------------------------------

\* The largest time of a window or a ray.
MaxTime == 3

Windows == {w \in (0..MaxTime) \X (0..MaxTime) : w[1] <= w[2]}

\* Spheres whose centre is on the grid at every whole time: the displacement
\* is a multiple of end_time - start_time.
MovingSpheres ==
    {MovingSphere(1, Vec3(4, 4, -4), Vec3(0, 0, -8), 0, 2, "Lambertian"),
     MovingSphere(1, Vec3(0, 0, -4), Vec3(4, 0, -4), 0, 2, "Metal"),
     MovingSphere(1, Vec3(0, 0, -4), Vec3(0, -2, -2), 1, 3, "Metal")}

\* Spheres built with start_time = end_time.
StillSpheres ==
    {MovingSphere(1, Vec3(0, 0, -4), Vec3(4, 0, -4), 0, 0, "Lambertian"),
     MovingSphere(1, Vec3(0, 0, -4), Vec3(0, 0, -4), 1, 1, "Lambertian")}

WindowUniverse ==
    MovingSpheres \cup {Sphere(Vec3(2, 2, -6), 1, "Dielectric")} \cup
    {MovingSphere(1, Vec3(0, 0, -4), Vec3(4, 0, -4), 0, 0, "Lambertian")}

WindowScenes ==
    {l \in UNION {[1..n -> WindowUniverse] : n \in 1..MaxPrims} :
        \A i, j \in 1..Len(l) : i # j => l[i] # l[j]}

InitWindow ==
    /\ UnionIdle /\ BoxHitIdle /\ BBoxIdle /\ BvhIdle /\ SphereIdle /\ ColorIdle /\ ScatterIdle /\ OthersIdle
    /\ prim \in {Asking(HitableList(l), RayNew(Vec3(0, 0, 0), Vec3(0, 0, -1), <<FALSE, FALSE, FALSE>>, 0),
                         0, FLOAT_MAX, w[1], w[2]) :
                    l \in WindowScenes, w \in Windows}
    /\ primBox = None
    /\ primOut = None

\* BvhNode::new(hitable_list, start_time, end_time)
BvhNewCall ==
    /\ prim /= None
    /\ world = None
    /\ \E rand_axis_at \in [CallPaths(Len(prim.self.list), 1, 0) -> 0..2] :
          world' = BvhNew(prim.self.list, prim.start_time, prim.end_time,
                          rand_axis_at, 1, 0)
    /\ UNCHANGED <<scene, query, listOut, bvhOut>>
    /\ UNCHANGED <<unionVars, boxHitVars, bboxVars, sphereVars, colorVars, primVars, scatterVars, renderVars, mediumVars>>

NextWindow == BvhNewCall \/ PrimBoxCall

SpecWindow == InitWindow /\ [][NextWindow]_vars

\* ------------------------------------------------------------------------
\* One constant medium inside a sphere and a ray through it
\* ------------------------------------------------------------------------

MediumBoundary == Sphere(Vec3(0, 0, 0), 5, "Lambertian")

MediumRays ==
    {RayNew(Vec3(x, 0, z), Vec3(0, 0, dz), NoNegZero, 0) :
        x \in {0, 3, 4, 5, 6}, z \in {-8, 0, 8, 9}, dz \in {-1, -2}}

MediumIntervals == {FLOAT_MIN, 0, 4} \X {6, 9, FLOAT_MAX}

\* -(1.0 - x).ln() for the x of the generator
MediumDraws == {0, 2, 4, 8, 12, 24}

MediumDensities == {1, 2}

\* Every quotient of ConstantMedium::hit is on the grid.
ConstantMediumExact(self, r) ==
    LET ray_length == Sqrt(dot(r.direction, r.direction))
    IN /\ SphereExact(self.boundary, r)
       /\ ray_length * ray_length = dot(r.direction, r.direction)
       /\ self.draw % (self.density * ray_length) = 0

InitMediumHit ==
    /\ prim \in {a \in {Asking(ConstantMedium(MediumBoundary, density, draw), r, i[1], i[2], 0, 1) :
                            density \in MediumDensities, draw \in MediumDraws,
                            r \in MediumRays, i \in MediumIntervals} :
                    ConstantMediumExact(a.self, a.ray)}
    /\ primBox = None
    /\ primOut = None
    /\ UnionIdle /\ BoxHitIdle /\ BBoxIdle /\ BvhIdle /\ SphereIdle /\ ColorIdle /\ ScatterIdle /\ OthersIdle

SpecMediumHit == InitMediumHit /\ [][NextPrim]_vars

\* ------------------------------------------------------------------------
\* One moving sphere: its box over a window and a ray at a time
\* ------------------------------------------------------------------------

MovingRays ==
    {RayNew(Vec3(x, y, 0), d, NoNegZero, time) :
        x \in {0, 2, 4}, y \in {0, 2, 4}, d \in {Vec3(0, 0, -1), Vec3(0, -1, -1)},
        time \in 0..MaxTime}

InitMoving ==
    /\ prim \in {a \in {Asking(self, r, 0, FLOAT_MAX, w[1], w[2]) :
                            self \in MovingSpheres \cup StillSpheres,
                            r \in MovingRays, w \in Windows} :
                    MovingSphereExact(a.self, a.ray)}
    /\ primBox = None
    /\ primOut = None
    /\ UnionIdle /\ BoxHitIdle /\ BBoxIdle /\ BvhIdle /\ SphereIdle /\ ColorIdle /\ ScatterIdle /\ OthersIdle

SpecMoving == InitMoving /\ [][NextPrim]_vars

\* ------------------------------------------------------------------------
\* RotateY around a rectangle or a sphere
\* ------------------------------------------------------------------------

\* <<sine, cosine>> of the angles: 0, 90, 180 and 270 degrees, and the two
\* angles of the 3-4-5 triangle.
Angles ==
    {<<Frac(0, 1), Frac(1, 1)>>, <<Frac(1, 1), Frac(0, 1)>>,
     <<Frac(0, 1), Frac(-1, 1)>>, <<Frac(-1, 1), Frac(0, 1)>>,
     <<Frac(3, 5), Frac(4, 5)>>, <<Frac(-4, 5), Frac(3, 5)>>}

\* Hitables whose box has its corners at multiples of 5 in x and z, so that
\* every angle keeps them on the grid.
RotateInner ==
    {XZRect(0, 5, -10, 0, 1, "Metal"), Sphere(Vec3(25, 0, 0), 5, "Lambertian"),
     MovingSphere(5, Vec3(25, 0, 0), Vec3(25, 0, 20), 0, 2, "Metal")}

RotateRays ==
    {RayNew(Vec3(x, y, z), d, NoNegZero, time) :
        x \in {0, 5, 20}, y \in {0, 3}, z \in {-5, 0, 20},
        d \in {Vec3(0, -1, 0), Vec3(5, -1, 0), Vec3(0, 0, -5), Vec3(-5, 0, 0),
               Vec3(0, 0, 5), Vec3(5, 0, 0)},
        time \in {0, 2}}

\* The rotated ray is on the grid, and so is what the wrapped hitable computes.
RotateYExact(self, r) ==
    /\ \A i \in {1, 3} :
          /\ ((self.cos_theta.num * r.origin[i]) % self.cos_theta.den) = 0
          /\ ((self.sin_theta.num * r.origin[i]) % self.cos_theta.den) = 0
          /\ ((self.cos_theta.num * r.direction[i]) % self.cos_theta.den) = 0
          /\ ((self.sin_theta.num * r.direction[i]) % self.cos_theta.den) = 0
    /\ self.hitable.kind = "Sphere" => SphereExact(self.hitable, RotatedRay(self, r))
    /\ self.hitable.kind = "MovingSphere" => MovingSphereExact(self.hitable, RotatedRay(self, r))

InitRotate ==
    /\ prim \in {a \in {Asking(RotateY(inner, angle[1], angle[2]), r, 0, FLOAT_MAX, 0, 1) :
                            inner \in RotateInner, angle \in Angles, r \in RotateRays} :
                    RotateYExact(a.self, a.ray)}
    /\ primBox = None
    /\ primOut = None
    /\ UnionIdle /\ BoxHitIdle /\ BBoxIdle /\ BvhIdle /\ SphereIdle /\ ColorIdle /\ ScatterIdle /\ OthersIdle

SpecRotate == InitRotate /\ [][NextPrim]_vars

\* ------------------------------------------------------------------------
\* Hit tests that are handed a record an earlier call has written
\* ------------------------------------------------------------------------

\* A record as an earlier hit has left it.
WrittenRecord ==
    [t |-> 7,
     hit_point |-> Vec3(1, 2, 3),
     normal |-> Frac(Vec3(0, 1, 0), 1),
     material |-> "Metal",
     u |-> Frac(1, 2),
     v |-> Frac(1, 4)]

AskingOnto(a, rec) ==
    [self |-> a.self, ray |-> a.ray, t_min |-> a.t_min, t_max |-> a.t_max,
     start_time |-> a.start_time, end_time |-> a.end_time, rec |-> rec]

RecordAsks ==
    {Asking(q[1], q[2], 0, FLOAT_MAX, 0, 0) :
        q \in {n \in Nested \X {RayNew(o, d, NoNegZero, 0) :
                                    o \in QueryOrigins, d \in QueryDirections} :
                  AllExact(n[1], n[2])}}
    \cup {a \in {Asking(self, r, 0, FLOAT_MAX, 0, 2) :
                    self \in MovingSpheres, r \in MovingRays} :
            MovingSphereExact(a.self, a.ray)}
    \cup {a \in {Asking(RotateY(inner, angle[1], angle[2]), r, 0, FLOAT_MAX, 0, 1) :
                    inner \in RotateInner, angle \in Angles, r \in RotateRays} :
            RotateYExact(a.self, a.ray)}
    \cup {a \in {Asking(ConstantMedium(MediumBoundary, 1, draw), r, 0, 9, 0, 1) :
                    draw \in {0, 24}, r \in MediumRays} :
            ConstantMediumExact(a.self, a.ray)}

InitRecord ==
    /\ prim \in {AskingOnto(a, rec) : a \in RecordAsks, rec \in {HitRecordNew, WrittenRecord}}
    /\ primBox = None
    /\ primOut = None
    /\ UnionIdle /\ BoxHitIdle /\ BBoxIdle /\ BvhIdle /\ SphereIdle /\ ColorIdle /\ ScatterIdle /\ OthersIdle

\* prim.self.hit(ray, t_min, t_max, rec) on the caller's record
HitOntoCall ==
    /\ prim /= None
    /\ primOut = None
    /\ primOut' = Hit(prim.self, prim.ray, prim.t_min, prim.t_max, prim.rec)
    /\ UNCHANGED <<prim, primBox>>
    /\ UNCHANGED <<unionVars, boxHitVars, bboxVars, bvhVars, sphereVars, colorVars, scatterVars, renderVars, mediumVars>>

NextRecord == PrimBoxCall \/ HitOntoCall

SpecRecord == InitRecord /\ [][NextRecord]_vars

\* ------------------------------------------------------------------------
\* VariableMedium::hit: the boundary interval and the rejection-sampling loop
\* ------------------------------------------------------------------------

\* The free-flight distance from which a step added to it is rounded away:
\* hit_distance is an f64 and stops growing.
AbsorbAt == 4

\* The free-flight distances the loop can reach: the last step before
\* AbsorbAt is at most 4.
Flights == 0..(AbsorbAt + 3)

\* VariableMedium::new.  noise_func is kept as the turbulence the Perlin
\* field has at the point the ray reaches after each free-flight distance.
VariableMedium(boundary, max_density, noise_func) ==
    [kind |-> "VariableMedium", boundary |-> boundary, max_density |-> max_density,
     noise_func |-> noise_func, phase_func |-> "Isotropic"]

\* Perlin::turbulance at ray.origin + hit_distance * unit_length_direction:
\* the sum of the signed noise of the octaves, which is not made positive.
turbulance(noise_func, flight) == noise_func[flight]

\* The start of VariableMedium::hit once the boundary has answered twice:
\* None where it returns false, else <<rec_1.t, rec_2.t>> as the loop finds
\* them.
VariableMediumEnds(t_min, t_max, out_1, out_2) ==
    IF ~out_1.hit \/ ~out_2.hit THEN None
    ELSE IF FGe(ClampEntry(out_1.rec.t, t_min), ClampExit(out_2.rec.t, t_max)) THEN None
    ELSE Some(<<IF FLt(ClampEntry(out_1.rec.t, t_min), 0) THEN 0
                ELSE ClampEntry(out_1.rec.t, t_min),
                ClampExit(out_2.rec.t, t_max)>>)

VariableMediumSecond(self, r, t_min, t_max, out_1) ==
    VariableMediumEnds(t_min, t_max, out_1,
                       IF out_1.hit
                       THEN Hit(self.boundary, r, FAdd(out_1.rec.t, SEPARATION), FLOAT_MAX,
                                HitRecordNew)
                       ELSE out_1)

VariableMediumInterval(self, r, t_min, t_max) ==
    VariableMediumSecond(self, r, t_min, t_max,
                         Hit(self.boundary, r, FLOAT_MIN, FLOAT_MAX, HitRecordNew))

\* hit_distance += -(1.0 - x).ln() / self.max_density, draw being
\* -(1.0 - x).ln()
Accumulate(flight, draw, max_density) ==
    IF flight >= AbsorbAt THEN flight ELSE flight + Quotient(draw, max_density)

\* y < turbulance / self.max_density
Accepts(y, noise, max_density) == RLt(y, Rat(noise, max_density))

\* The end of VariableMedium::hit, after the loop.
VariableMediumOut(r, rec, entry, ray_length, dist_inside_boundary, flight) ==
    IF FLt(flight, dist_inside_boundary)
    THEN Outcome(TRUE,
                 [rec EXCEPT
                    !.t = FAdd(entry, Quotient(flight, ray_length)),
                    !.hit_point = point_at_param(r, FAdd(entry, Quotient(flight, ray_length))),
                    !.normal = [num |-> Vec3(1, 0, 0), den |-> 1],
                    !.material = "Isotropic"],
                 <<>>)
    ELSE Outcome(FALSE, rec, <<>>)

\* Fields that are 0 everywhere, negative everywhere, at max_density
\* everywhere, positive near the origin of the ray only, and positive far
\* from it only.
NoiseFields ==
    {[d \in Flights |-> 0], [d \in Flights |-> -1], [d \in Flights |-> 2],
     [d \in Flights |-> IF d < 2 THEN 1 ELSE 0],
     [d \in Flights |-> IF d >= 3 THEN 1 ELSE -1]}

\* -(1.0 - x).ln() for the x of the generator, and its y
FlightDraws == {0, 2, 4}
Uniforms == {Zero, Rat(1, 2)}

\* The locals of VariableMedium::hit before the loop, where the boundary is
\* crossed: rec_1.t, rec_2.t, ray_length and dist_inside_boundary.
Locals(r, ends) ==
    IF ends = None THEN None
    ELSE Some([entry |-> ends.some[1], exit |-> ends.some[2],
               ray_length |-> length(r.direction),
               dist_inside_boundary |->
                   FMul(FSub(ends.some[2], ends.some[1]), length(r.direction))])

\* The activation of VariableMedium::hit once the boundary has been asked
\* twice: the arguments and the locals.
Probed(self, r, t_min, t_max, rec) ==
    [self |-> self, ray |-> r, t_min |-> t_min, t_max |-> t_max, rec |-> rec,
     locals |-> Locals(r, VariableMediumInterval(self, r, t_min, t_max))]

InitVariable ==
    /\ medium \in {Probed(VariableMedium(MediumBoundary, max_density, noise_func),
                          r, 0, t_max, HitRecordNew) :
                       max_density \in {1, 2}, noise_func \in NoiseFields,
                       r \in {q \in MediumRays : q.direction = Vec3(0, 0, -1)},
                       t_max \in {9, FLOAT_MAX}}
    /\ hit_distance = None
    /\ mediumOut = None
    /\ UnionIdle /\ BoxHitIdle /\ BBoxIdle /\ BvhIdle /\ SphereIdle /\ ColorIdle
    /\ PrimIdle /\ ScatterIdle /\ RenderIdle

\* VariableMedium::hit up to the loop: it returns false, or enters the loop
\* with hit_distance = 0.0.
VariableMediumEnter ==
    /\ medium /= None
    /\ hit_distance = None
    /\ mediumOut = None
    /\ IF medium.locals = None
       THEN /\ mediumOut' = Outcome(FALSE, medium.rec, <<>>)
            /\ hit_distance' = hit_distance
       ELSE /\ hit_distance' = Some(0)
            /\ mediumOut' = mediumOut
    /\ UNCHANGED medium
    /\ UNCHANGED <<unionVars, boxHitVars, bboxVars, bvhVars, sphereVars, colorVars, primVars, scatterVars, renderVars>>

\* One iteration of the loop that does not reach the break.
VariableMediumAgain ==
    /\ medium /= None
    /\ hit_distance /= None
    /\ mediumOut = None
    /\ \E draw \in FlightDraws, y \in Uniforms :
          /\ ~Accepts(y,
                      turbulance(medium.self.noise_func,
                                 Accumulate(hit_distance.some, draw, medium.self.max_density)),
                      medium.self.max_density)
          /\ hit_distance' = Some(Accumulate(hit_distance.some, draw, medium.self.max_density))
    /\ UNCHANGED <<medium, mediumOut>>
    /\ UNCHANGED <<unionVars, boxHitVars, bboxVars, bvhVars, sphereVars, colorVars, primVars, scatterVars, renderVars>>

\* The iteration that reaches the break, and the rest of hit after the loop.
VariableMediumBreak ==
    /\ medium /= None
    /\ hit_distance /= None
    /\ mediumOut = None
    /\ \E draw \in FlightDraws, y \in Uniforms :
          /\ Accepts(y,
                     turbulance(medium.self.noise_func,
                                Accumulate(hit_distance.some, draw, medium.self.max_density)),
                     medium.self.max_density)
          /\ hit_distance' = Some(Accumulate(hit_distance.some, draw, medium.self.max_density))
          /\ mediumOut' =
                VariableMediumOut(medium.ray, medium.rec, medium.locals.some.entry,
                                  medium.locals.some.ray_length,
                                  medium.locals.some.dist_inside_boundary,
                                  Accumulate(hit_distance.some, draw, medium.self.max_density))
    /\ UNCHANGED medium
    /\ UNCHANGED <<unionVars, boxHitVars, bboxVars, bvhVars, sphereVars, colorVars, primVars, scatterVars, renderVars>>

NextVariable == VariableMediumEnter \/ VariableMediumAgain \/ VariableMediumBreak

SpecVariable == InitVariable /\ [][NextVariable]_vars

\* The thread that called hit runs it on: whenever a step of hit changes
\* anything, a step is taken.
SpecVariableFair == SpecVariable /\ WF_vars(NextVariable)

\* ------------------------------------------------------------------------
\* main: the loops over the pixels, the workers of a pixel and their join
\* ------------------------------------------------------------------------

\* The largest number num_cpus::get() returns.
MaxCpus == 3

\* The sub-pixel grid is GridN by GridM samples, the image NumPixels pixels.
GridN == 2
GridM == 2
NumPixels == 2

\* What a worker hands back: the sum of its GridN * GridM radiance samples.
WorkerSums == {Vec3(0, 0, 0), Vec3(1, 2, 4), Vec3(8, 0, 3)}

\* thread::spawn: the worker runs from the moment it is spawned.
Worker == [state |-> "running", sum |-> None, rank |-> 0]

\* The divisor of a pixel when every worker divides nothing itself.
PixelDivisor_samples_only(threads) == GridN * GridM

\* (n * m * num_threads) as f64
PixelDivisor(threads) == GridN * GridM * threads

\* One channel of color /= divisor: an exact fraction, or what f64 makes of a
\* division by 0.0 (NaN for 0.0 / 0.0, infinite otherwise) over 1.
ChannelOver(c, divisor) ==
    IF divisor = 0 THEN Frac(FDiv(c, 0, FALSE), 1)
    ELSE Rat(c, divisor)

\* The largest k with k * k <= x.
FloorSqrt(x) == CHOOSE k \in 0..256 : k * k <= x /\ (k + 1) * (k + 1) > x

\* (c.min(1.0).sqrt() * 255.99) as u8 for a channel c >= 0: NaN.min(1.0) is
\* 1.0, and below 1 the value is the floor of the root of 255.99^2 * c,
\* taken in two parts to stay within the integers.
ToU8(c) ==
    IF ~IsFinite(c.num) THEN 255
    ELSE IF c.num >= c.den THEN 255
    ELSE FloorSqrt(((655308801 \div (10000 * c.den)) * c.num)
                   + (((655308801 % (10000 * c.den)) * c.num) \div (10000 * c.den)))

InitRender ==
    /\ UnionIdle /\ BoxHitIdle /\ BBoxIdle /\ BvhIdle /\ SphereIdle /\ ColorIdle /\ PrimIdle
    /\ ScatterIdle /\ MediumIdle
    /\ \E num_cpus \in 1..MaxCpus : num_threads = num_cpus - 1
    /\ pixel = 0
    /\ child_threads = <<>>
    /\ joined = 0
    /\ color = Vec3(0, 0, 0)
    /\ img_buff = <<>>

\* One turn of `for _ in 0..num_threads`: child_threads.push(thread::spawn(..))
Spawn ==
    /\ Len(img_buff) = pixel
    /\ joined = 0
    /\ Len(child_threads) < num_threads
    /\ child_threads' = Append(child_threads, Worker)
    /\ UNCHANGED <<num_threads, pixel, joined, color, img_buff>>
    /\ UNCHANGED <<unionVars, boxHitVars, bboxVars, bvhVars, sphereVars, colorVars, primVars, scatterVars, mediumVars>>

\* A worker's closure returns its _color; rank counts the workers of the
\* pixel that returned before it.
WorkerReturn ==
    /\ \E i \in 1..Len(child_threads), sum \in WorkerSums :
          /\ child_threads[i].state = "running"
          /\ child_threads' =
                [child_threads EXCEPT ![i] =
                    [state |-> "finished", sum |-> sum,
                     rank |-> Cardinality({j \in 1..Len(child_threads) :
                                             child_threads[j].state = "finished"})]]
    /\ UNCHANGED <<num_threads, pixel, joined, color, img_buff>>
    /\ UNCHANGED <<unionVars, boxHitVars, bboxVars, bvhVars, sphereVars, colorVars, primVars, scatterVars, mediumVars>>

\* One turn of `for thread in child_threads`: color += thread.join().unwrap(),
\* which blocks until that worker has returned.
Join ==
    /\ Len(img_buff) = pixel
    /\ Len(child_threads) = num_threads
    /\ joined < num_threads
    /\ child_threads[joined + 1].state = "finished"
    /\ color' = VAdd(color, child_threads[joined + 1].sum)
    /\ joined' = joined + 1
    /\ UNCHANGED <<num_threads, pixel, child_threads, img_buff>>
    /\ UNCHANGED <<unionVars, boxHitVars, bboxVars, bvhVars, sphereVars, colorVars, primVars, scatterVars, mediumVars>>

\* color /= (n * m * num_threads) as f64, the three channels and put_pixel.
PutPixel ==
    /\ Len(img_buff) = pixel /\ pixel < NumPixels
    /\ Len(child_threads) = num_threads
    /\ joined = num_threads
    /\ color' = [i \in 1..3 |-> ChannelOver(color[i], PixelDivisor(num_threads))]
    /\ img_buff' = Append(img_buff,
                          [i \in 1..3 |->
                              ToU8(ChannelOver(color[i], PixelDivisor(num_threads)))])
    /\ UNCHANGED <<num_threads, pixel, child_threads, joined>>
    /\ UNCHANGED <<unionVars, boxHitVars, bboxVars, bvhVars, sphereVars, colorVars, primVars, scatterVars, mediumVars>>

\* The next turn of the loops over y and x: a fresh child_threads and color.
NextPixel ==
    /\ Len(img_buff) = pixel + 1 /\ pixel + 1 < NumPixels
    /\ pixel' = pixel + 1
    /\ child_threads' = <<>>
    /\ joined' = 0
    /\ color' = Vec3(0, 0, 0)
    /\ UNCHANGED <<num_threads, img_buff>>
    /\ UNCHANGED <<unionVars, boxHitVars, bboxVars, bvhVars, sphereVars, colorVars, primVars, scatterVars, mediumVars>>

NextRender == Spawn \/ WorkerReturn \/ Join \/ PutPixel \/ NextPixel

SpecRender == InitRender /\ [][NextRender]_vars

\* ------------------------------------------------------------------------
\* Properties
\* ------------------------------------------------------------------------

UnionContains ==
    surrounding /= None =>
        \A p \in Points : (Contains(box_1, p) \/ Contains(box_2, p)) => Contains(surrounding, p)

UnionCommutes == (surrounding /= None /\ swapped /= None) => surrounding = swapped

InputsKept == box_1' = box_1 /\ box_2' = box_2

\* C8: the box calc_surrounding_box returns contains every point of either
\* argument, the order of the arguments does not change it, and the call
\* leaves both arguments as they were.
C8_BoxUnion == [](UnionContains /\ UnionCommutes) /\ [][InputsKept]_vars

C8_Witness ==
    /\ surrounding /= None /\ swapped /= None
    /\ surrounding /= box_1 /\ surrounding /= box_2
    /\ \E p \in Points : Contains(box_1, p) /\ ~Contains(box_2, p)
    /\ \E p \in Points : Contains(box_2, p) /\ ~Contains(box_1, p)

\* C10: a box answers a ray over (t_min, t_max) as it answers the reversed
\* ray over (-t_max, -t_min).
C10_HitSymmetry ==
    (forward /= None /\ reversed /= None /\ interval[1] < interval[2]) => forward = reversed

C10_Witness ==
    /\ forward = Some(TRUE) /\ reversed = Some(TRUE)
    /\ interval[1] < interval[2]
    /\ \E i \in 1..3 : ray.direction[i] = 0

\* C9: every box a bounding_box() hands back has min_bound <= max_bound on
\* each axis.
C9_BoxInvariant == (bbox /= None /\ bbox.some /= None) => WellFormed(bbox.some)

\* C1: on a non-empty scene the tree and the list agree on whether the ray
\* hits, and on the t of the hit.
C1_BvhEquivalence ==
    (listOut /= None /\ bvhOut /= None /\ scene /= <<>>) =>
        /\ bvhOut.hit = listOut.hit
        /\ bvhOut.hit => bvhOut.rec.t = listOut.rec.t

\* C2: BvhNode::new of an empty list ends without a fatal error, in a node
\* that has no box.
C2_EmptyBuild ==
    (scene = <<>> /\ world /= None) => (~IsAbort(world) /\ BoundingBox(world, 0, 0) = None)

\* What each element of the scene answers when asked alone over the interval.
Alone == [i \in 1..Len(scene) |->
            Hit(scene[i], query.ray, query.t_min, query.t_max, HitRecordNew)]

ListDiscipline ==
    listOut /= None =>
        LET hitters == {i \in 1..Len(scene) : Alone[i].hit}
        IN /\ listOut.hit = (hitters /= {})
           /\ listOut.hit =>
                 /\ \E i \in hitters : listOut.rec.t = Alone[i].rec.t
                 /\ \A i \in hitters : listOut.rec.t <= Alone[i].rec.t

RECURSIVE NodeDiscipline(_, _)
\* out is what node.hit handed back for the query.
NodeDiscipline(node, out) ==
    IF node.kind /= "BvhNode" THEN TRUE
    ELSE IF ~AABBHit(node.bounding_box, query.ray, query.t_min, query.t_max)
    THEN out.calls = <<>> /\ ~out.hit
    ELSE /\ Len(out.calls) = 2
         /\ out.calls[1].child = "left"
         /\ out.calls[2].child = "right"
         /\ \A k \in 1..2 : out.calls[k].t_min = query.t_min /\ out.calls[k].t_max = query.t_max
         /\ out.hit = (out.calls[1].out.hit \/ out.calls[2].out.hit)
         /\ out.hit =>
               /\ \E k \in 1..2 : out.calls[k].out.hit /\ out.rec.t = out.calls[k].out.rec.t
               /\ \A k \in 1..2 : out.calls[k].out.hit => out.rec.t <= out.calls[k].out.rec.t
         /\ NodeDiscipline(node.left, out.calls[1].out)
         /\ NodeDiscipline(node.right, out.calls[2].out)

AimDistance == dot(VSub(sphere.self.center, sphere.ray.origin), sphere.ray.direction)

RoundTrip ==
    LET rec == sphereOut.rec
        off == VSub(rec.hit_point, sphere.self.center)
    IN /\ sphereOut.hit
       /\ rec.t = AimDistance - sphere.self.radius
       /\ dot(off, off) = sphere.self.radius * sphere.self.radius
       /\ rec.normal = Frac(off, sphere.self.radius)
       /\ dot(rec.normal.num, rec.normal.num) = rec.normal.den * rec.normal.den

\* The scenario of radius 0.5 at (0,0,-1), in grid units of 0.5.
Scenario ==
    /\ sphere.self.center = Vec3(0, 0, -2) /\ sphere.self.radius = 1
    /\ sphere.ray.origin = Vec3(0, 0, 0) /\ sphere.ray.direction = Vec3(0, 0, -1)
    /\ sphere.t_min = 0

ScenarioHit ==
    /\ sphereOut.hit
    /\ sphereOut.rec.t = 1
    /\ sphereOut.rec.hit_point = Vec3(0, 0, -1)
    /\ sphereOut.rec.normal = Frac(Vec3(0, 0, 1), 1)

\* C7 as stated: from any distance d > r the ray aimed at the centre hits at
\* t = d - r, at a point r from the centre, with the unit normal
\* (hit_point - c) / r; the scenario gives t = 0.5, (0,0,-0.5), (0,0,1).
C7_RoundTripAnyDistance ==
    sphereOut /= None => (RoundTrip /\ (Scenario => ScenarioHit))

\* C7, amended: the same, from any distance d with d - r > epsilon.
C7_RoundTrip ==
    sphereOut /= None =>
        /\ (AimDistance - sphere.self.radius > sphere.t_min) => RoundTrip
        /\ Scenario => ScenarioHit

C7_Witness ==
    /\ sphereOut /= None /\ sphereOut.hit
    /\ sphere.self.radius = 2
    /\ sphere.t_min = 1
    /\ sphereOut.rec.t = 2
    /\ AimDistance = 4

NonNegative(colour) == X(colour) >= 0 /\ Y(colour) >= 0 /\ Z(colour) >= 0

\* C5: no call of get_color, at any depth, returns a negative component.
C5_NonNegative == \A k \in 1..Len(ret) : NonNegative(ret[k])

C5_Witness ==
    /\ pc = "done"
    /\ Len(stack) >= 3
    /\ Y(ret[Len(ret)]) > 0
    /\ \E i \in 1..Len(stack) : stack[i].material.kind = "Glossy"

\* The frame whose return value is ret[k].
FrameOf(k) == stack[Len(stack) - k + 1]

\* C6: a call that hit returns emitted alone when depth >= MAX_DEPTH or the
\* material did not scatter, and emitted + attenuation * (what the call one
\* level deeper returned) otherwise; a call that missed returns (0,0,0).
C6_Recurrence ==
    \A k \in 1..Len(ret) :
        LET f == FrameOf(k)
        IN IF ~f.hit THEN ret[k] = Black
           ELSE IF f.depth >= MAX_DEPTH \/ ~f.did_scatter THEN ret[k] = f.emitted_light
           ELSE /\ k > 1
                /\ FrameOf(k - 1).depth = f.depth + 1
                /\ ret[k] = Vec3(X(f.emitted_light) + X(f.attenuation) * X(ret[k - 1]),
                                 Y(f.emitted_light) + Y(f.attenuation) * Y(ret[k - 1]),
                                 Z(f.emitted_light) + Z(f.attenuation) * Z(ret[k - 1]))

C6_Witness ==
    /\ pc = "done"
    /\ Len(stack) = 4
    /\ stack[4].material.kind = "DiffuseLight"
    /\ stack[1].attenuation = Vec3(1, 0, 2)
    /\ ret[4] = Vec3(2, 0, 8)

\* The two slab parameters of the box test on an axis, as the code orders them.
SlabLo(i) == Slab(aabb, ray, i, ray.sign[i])
SlabHi(i) == Slab(aabb, ray, i, ~ray.sign[i])

\* The greatest of the slab entries and the least of the slab exits that are
\* numbers.
SlabEntry == CHOOSE a \in {SlabLo(i) : i \in {j \in 1..3 : ~IsNaN(SlabLo(j))}} :
                 \A i \in 1..3 : IsNaN(SlabLo(i)) \/ SlabLo(i) <= a
SlabExit == CHOOSE b \in {SlabHi(i) : i \in {j \in 1..3 : ~IsNaN(SlabHi(j))}} :
                \A i \in 1..3 : IsNaN(SlabHi(i)) \/ SlabHi(i) >= b

NoNaNSlab == \A i \in 1..3 : ~IsNaN(SlabLo(i)) /\ ~IsNaN(SlabHi(i))

RECURSIVE Narrowed(_, _, _)
\* [t_min, t_max] narrowed by the slabs of the axes from i on: false as soon
\* as the running interval has t_max <= t_min.
Narrowed(i, t_min, t_max) ==
    IF i > 3 THEN TRUE
    ELSE LET lo == FMax(t_min, SlabLo(i))
             hi == FMin(t_max, SlabHi(i))
         IN IF hi <= lo THEN FALSE ELSE Narrowed(i + 1, lo, hi)

\* C11 as stated: the box test answers true exactly when narrowing
\* [t_min, t_max] by the three slab intervals leaves t_max > t_min, a
\* single-point overlap being a miss (rays without a NaN slab parameter).
C11_SlabNarrowing ==
    (forward /= None /\ NoNaNSlab) => forward.some = Narrowed(1, interval[1], interval[2])

\* C11, amended: the box test answers true exactly when the three slab
\* intervals have a parameter in common (entry <= exit, a single common point
\* included), entry < t_max and exit > t_min; a NaN slab parameter puts no
\* constraint on y and z, and on x it makes the answer false.
C11_SlabOverlap ==
    forward /= None =>
        forward.some = (/\ ~IsNaN(SlabLo(1)) /\ ~IsNaN(SlabHi(1))
                        /\ SlabEntry <= SlabExit
                        /\ SlabEntry < interval[2]
                        /\ SlabExit > interval[1])

C11_Witness ==
    /\ forward = Some(TRUE)
    /\ NoNaNSlab
    /\ SlabEntry = SlabExit
    /\ \A i \in 1..3 : ray.direction[i] /= 0 => SlabLo(i) < SlabHi(i)

\* The box with its range on axis i replaced by one the ray's origin lies
\* strictly inside: asked a ray parallel to that axis, it is the slab test of
\* the two other axes.
Widened(box, r, i) ==
    AABBNew([box.min_bound EXCEPT ![i] = r.origin[i] - 1],
            [box.max_bound EXCEPT ![i] = r.origin[i] + 1])

\* C12: for a ray whose direction is 0 on an axis, the box test answers false
\* when the origin lies outside the box's range on that axis, and otherwise
\* (boundaries included) answers as the slab test of the two other axes.
C12_ParallelAxis ==
    forward /= None =>
        \A i \in 1..3 :
            ray.direction[i] = 0 =>
                IF ray.origin[i] < aabb.min_bound[i] \/ ray.origin[i] > aabb.max_bound[i]
                THEN forward.some = FALSE
                ELSE forward.some = AABBHit(Widened(aabb, ray, i), ray, interval[1], interval[2])

\* The axis a rectangle is fixed on.
FixedAxis(self) ==
    CASE self.kind = "XYRect" -> 3
      [] self.kind = "XZRect" -> 2
      [] self.kind = "YZRect" -> 1

\* C13: a ray whose direction is 0 along the fixed axis of a rectangle,
\* whether its origin is off the rectangle's plane or in it, misses, and no
\* NaN or infinite t is written into the record.
C13_ParallelMiss ==
    (primOut /= None /\ prim.ray.direction[FixedAxis(prim.self)] = 0) =>
        (~primOut.hit /\ IsFinite(primOut.rec.t))

Degenerate == prim.self.kind = "Polygon" /\ Len(prim.self.vertices) < 3

\* C14: a polygon of fewer than 3 vertices has no bounding box (bounding_box
\* returns None), and its hit test misses every ray.
C14_DegeneratePolygon ==
    Degenerate =>
        /\ primBox /= None => primBox.some = None
        /\ primOut /= None => ~primOut.hit

\* The part of C14 about the hit test alone.
C14_DegenerateMisses == (Degenerate /\ primOut /= None) => ~primOut.hit

RECURSIVE MaterialPresent(_)
\* out and every answer below it: a hit carries a material, and a hit of a
\* list, node or wrapper carries the material of a child that hit.
MaterialPresent(out) ==
    /\ out.hit => out.rec.material /= "None"
    /\ (out.hit /\ out.calls /= <<>>) =>
          \E k \in 1..Len(out.calls) :
              out.calls[k].out.hit /\ out.calls[k].out.rec.material = out.rec.material
    /\ \A k \in 1..Len(out.calls) : MaterialPresent(out.calls[k].out)

\* C15: whenever a hit test answers true, at any depth of nesting, the
\* caller's record has a material; the record a node copies out of its
\* child's record with HitRecord::from carries the child's material.
C15_MaterialPresent == primOut /= None => MaterialPresent(primOut)

C15_Witness ==
    /\ primOut /= None /\ primOut.hit
    /\ prim.self.kind = "BvhNode"
    /\ prim.self.left.kind = "HitableList"
    /\ Len(primOut.calls) = 2
    /\ primOut.calls[1].out.hit /\ primOut.calls[2].out.hit
    /\ primOut.calls[2].out.rec.t < primOut.calls[1].out.rec.t
    /\ primOut.calls[1].out.rec.material = "Lambertian"
    /\ primOut.rec.material = "Metal"

\* The incoming ray runs along the negated normal.
NormalIncidence ==
    dot(scatterIn.direction, scatterIn.normal.num) = -(length(scatterIn.direction) * scatterIn.normal.den)

\* C16: schlick_approx(1, 1.5) is ((1 - 1.5)/(1 + 1.5))^2 = 0.04 = 1/25, and
\* Dielectric(1.5).scatter of a ray that enters along the negated normal
\* computes the cosine 1 and the reflect probability 0.04.
C16_NormalIncidence ==
    /\ schlick_approx(One, Rat(3, 2)) = Rat(4, 100)
    /\ schlick_approx(One, Rat(3, 2)) =
          RMul(RDiv(RSub(One, Rat(3, 2)), RAdd(One, Rat(3, 2))),
               RDiv(RSub(One, Rat(3, 2)), RAdd(One, Rat(3, 2))))
    /\ (scatterOut /= None /\ scatterIn.material = Dielectric(Rat(3, 2)) /\ NormalIncidence) =>
          /\ scatterOut.cosine = One
          /\ scatterOut.reflect_probability = Rat(4, 100)

C16_Witness ==
    /\ scatterOut /= None
    /\ scatterIn.material = Dielectric(Rat(3, 2))
    /\ NormalIncidence
    /\ scatterIn.direction = Vec3(0, 0, -2)
    /\ scatterOut.schlick = Some(Rat(1, 25))
    /\ scatterOut.scattered = Frac(Vec3(0, 0, 2), 1)

InUnit(a) == RLe(Zero, a) /\ RLe(a, One)

\* C17: the cosine that Dielectric::scatter and Glossy::scatter hand to
\* schlick_approx lies in [0, 1], entering or leaving, front or back face,
\* and so does the reflectance it gives.
C17_CosineInUnit ==
    (scatterOut /= None /\ scatterOut.schlick /= None) =>
        (InUnit(scatterOut.cosine) /\ InUnit(scatterOut.schlick.some))

\* The key sort_ord would compare for child on rand_axis if it asked for the
\* box over (start_time, end_time).
KeyOver(child, rand_axis, start_time, end_time) ==
    BoundingBox(child, start_time, end_time).min_bound[rand_axis + 1]

RECURSIVE Members(_)
\* The hitables of the list that ended under node.
Members(node) ==
    IF node.kind = "BvhNode" THEN Members(node.left) \cup Members(node.right)
    ELSE {node}

\* C18: BvhNode::new(list, start_time, end_time) splits by keys taken over
\* (start_time, end_time): on some axis no hitable of the left child has a
\* greater box minimum over that window than a hitable of the right child; and
\* the cached box is the union of the two children's boxes over that window.
C18_SameWindow ==
    (world /= None /\ ~IsAbort(world)) =>
        /\ \E rand_axis \in 0..2 :
              \A l \in Members(world.left), r \in Members(world.right) :
                 ~FGt(KeyOver(l, rand_axis, prim.start_time, prim.end_time),
                      KeyOver(r, rand_axis, prim.start_time, prim.end_time))
        /\ world.bounding_box =
              calc_surrounding_box(
                 BoundingBox(world.left, prim.start_time, prim.end_time),
                 BoundingBox(world.right, prim.start_time, prim.end_time))

\* The second half of C18 alone: the cached box is the union of the children's
\* boxes over the window of the call.
C18_CachedUnion ==
    (world /= None /\ ~IsAbort(world)) =>
        world.bounding_box =
           calc_surrounding_box(
              BoundingBox(world.left, prim.start_time, prim.end_time),
              BoundingBox(world.right, prim.start_time, prim.end_time))

\* box holds the whole sphere of the given centre and radius.
ContainsSphere(box, center, radius) ==
    /\ Contains(box, VSubScalar(center, radius))
    /\ Contains(box, VAddScalar(center, radius))

\* Some bound of the box is NaN or infinite.
Unbounded(box) ==
    \E i \in 1..3 : ~IsFinite(box.min_bound[i]) \/ ~IsFinite(box.max_bound[i])

\* C19 as stated: the box over (t0, t1) holds the sphere at get_center(tau) for
\* every tau of the window and the sphere at start_center and at end_center.
C19_SweptAndConfigured ==
    primBox /= None =>
        /\ \A tau \in prim.start_time..prim.end_time :
              ContainsSphere(primBox.some, get_center(prim.self, tau), prim.self.radius)
        /\ ContainsSphere(primBox.some, prim.self.start_center, prim.self.radius)
        /\ ContainsSphere(primBox.some, prim.self.end_center, prim.self.radius)

\* C19: for a sphere with start_time < end_time, bounding_box(t0, t1) holds the
\* sphere at get_center(tau) for every tau in [t0, t1]; it holds the sphere at
\* start_center and at end_center when [t0, t1] covers [start_time, end_time];
\* a hit for a ray whose time is in [t0, t1] has its hit point in that box and
\* in the box a BvhNode built over (t0, t1) caches.  With start_time = end_time
\* the centre is NaN or infinite: the box has a NaN or infinite bound and hit
\* reports nothing.
C19_SweptBox ==
    primBox /= None =>
        /\ prim.self.start_time < prim.self.end_time =>
              /\ \A tau \in prim.start_time..prim.end_time :
                    ContainsSphere(primBox.some, get_center(prim.self, tau),
                                   prim.self.radius)
              /\ (prim.start_time <= prim.self.start_time /\
                  prim.self.end_time <= prim.end_time) =>
                    /\ ContainsSphere(primBox.some, prim.self.start_center,
                                      prim.self.radius)
                    /\ ContainsSphere(primBox.some, prim.self.end_center,
                                      prim.self.radius)
              /\ (primOut /= None /\ primOut.hit /\
                  prim.start_time <= prim.ray.time /\ prim.ray.time <= prim.end_time) =>
                    /\ Contains(primBox.some, primOut.rec.hit_point)
                    /\ Contains(BvhNodeOf(prim.self, prim.self, prim.start_time,
                                          prim.end_time).bounding_box,
                                primOut.rec.hit_point)
        /\ prim.self.start_time = prim.self.end_time =>
              /\ Unbounded(primBox.some)
              /\ primOut /= None => ~primOut.hit

\* A sphere half way along its path is hit by a ray at that time, inside the
\* box over a window that covers neither end of the path alone.
C19_Witness ==
    /\ primBox /= None /\ primOut /= None /\ primOut.hit
    /\ prim.self.start_time = 0 /\ prim.self.end_time = 2
    /\ prim.self.start_center /= prim.self.end_center
    /\ prim.start_time = 0 /\ prim.end_time = 2 /\ prim.ray.time = 1
    /\ primOut.rec.hit_point[1] = get_center(prim.self, 1)[1]
    /\ Contains(primBox.some, primOut.rec.hit_point)
    /\ ContainsSphere(primBox.some, prim.self.start_center, prim.self.radius)
    /\ ContainsSphere(primBox.some, prim.self.end_center, prim.self.radius)

\* C20: whenever RotateY.hit reports a hit and the hit point of the wrapped
\* hitable lies in the box RotateY::new took from it, the reported hit point
\* lies in the box RotateY.bounding_box returns; that box holds each of the 8
\* rotated corners of the wrapped box and each of its bounds is the
\* coordinate of one of them.
C20_ConservativeRotation ==
    (primBox /= None /\ primOut /= None) =>
        /\ (primOut.hit /\
            Contains(BoundingBox(prim.self.hitable, 0, 1),
                     primOut.calls[1].out.rec.hit_point)) =>
              Contains(primBox.some, primOut.rec.hit_point)
        /\ \A n \in 0..7 :
              Contains(primBox.some,
                       RotatedCorner(BoundingBox(prim.self.hitable, 0, 1),
                                     prim.self.sin_theta, prim.self.cos_theta, n))
        /\ \A i \in 1..3 :
              \E n, m \in 0..7 :
                 /\ primBox.some.min_bound[i] =
                       RotatedCorner(BoundingBox(prim.self.hitable, 0, 1),
                                     prim.self.sin_theta, prim.self.cos_theta, n)[i]
                 /\ primBox.some.max_bound[i] =
                       RotatedCorner(BoundingBox(prim.self.hitable, 0, 1),
                                     prim.self.sin_theta, prim.self.cos_theta, m)[i]

\* A hit through a rotation off the axes, at a point outside the box of the
\* wrapped hitable, with a rotated box wider than the wrapped one.
C20_Witness ==
    /\ primBox /= None /\ primOut /= None /\ primOut.hit
    /\ prim.self.cos_theta.den = 5
    /\ Contains(BoundingBox(prim.self.hitable, 0, 1), primOut.calls[1].out.rec.hit_point)
    /\ ~Contains(BoundingBox(prim.self.hitable, 0, 1), primOut.rec.hit_point)
    /\ Contains(primBox.some, primOut.rec.hit_point)
    /\ primBox.some.max_bound[1] - primBox.some.min_bound[1] >
          BoundingBox(prim.self.hitable, 0, 1).max_bound[1]
          - BoundingBox(prim.self.hitable, 0, 1).min_bound[1]

\* The pixel of the current turn has been written.
Written == Len(img_buff) = pixel + 1

RECURSIVE SumOfWorkers(_, _)
\* The sums of the first k workers, added in spawn order.
SumOfWorkers(threads, k) ==
    IF k = 0 THEN Vec3(0, 0, 0) ELSE VAdd(SumOfWorkers(threads, k - 1), threads[k].sum)

\* C21: when a pixel is written every worker spawned for it has returned and
\* been joined, and the colour is the sum of the workers' sums over
\* n * m * num_threads, whatever the order the workers returned in; no pixel
\* is written while a worker of it is still to be joined.
C21_JoinThenAverage ==
    /\ Written =>
          /\ Len(child_threads) = num_threads /\ joined = num_threads
          /\ \A i \in 1..num_threads : child_threads[i].state = "finished"
          /\ \A i \in 1..3 :
                /\ color[i] = ChannelOver(SumOfWorkers(child_threads, num_threads)[i],
                                          GridN * GridM * num_threads)
                /\ img_buff[pixel + 1][i] = ToU8(color[i])
    /\ joined < Len(child_threads) => Len(img_buff) = pixel

\* Two workers returned in the reverse of their spawn order and the pixel was
\* written from both sums.
C21_Witness ==
    /\ Written /\ num_threads = 2
    /\ child_threads[1].rank = 1 /\ child_threads[2].rank = 0
    /\ child_threads[1].sum = Vec3(1, 2, 4) /\ child_threads[2].sum = Vec3(8, 0, 3)
    /\ color = <<Rat(9, 8), Rat(1, 4), Rat(7, 8)>>
    /\ img_buff[pixel + 1] = <<255, 127, 239>>

\* C30: every pixel written had at least one worker: the divisor
\* n * m * num_threads is positive and the colour is a number, the average of
\* the samples.
C30_AtLeastOneWorker ==
    Written =>
        /\ num_threads >= 1
        /\ Len(child_threads) >= 1
        /\ GridN * GridM * num_threads > 0
        /\ \A i \in 1..3 : IsFinite(color[i].num)

RECURSIVE LeafCount(_)
\* The number of leaves under node, a leaf counted as often as it hangs there.
LeafCount(node) ==
    IF node.kind = "BvhNode" THEN LeafCount(node.left) + LeafCount(node.right) ELSE 1

\* The elements of a list, as a set.
Elements(list) == {list[i] : i \in 1..Len(list)}

RECURSIVE ShapeOf(_, _)
\* node is what BvhNode::new makes of the n elements in elems: a single
\* element twice, two elements one a side, or floor(n / 2) elements under the
\* left child and the others under the right, no left element above a right
\* one on some axis.
ShapeOf(node, elems) ==
    /\ node.kind = "BvhNode"
    /\ Members(node) = elems
    /\ CASE Cardinality(elems) = 1 ->
              node.left \in elems /\ node.right = node.left
         [] Cardinality(elems) = 2 ->
              /\ node.left \in elems /\ node.right \in elems
              /\ node.left /= node.right
              /\ \E rand_axis \in 0..2 :
                    ~FGt(SortKey(node.left, rand_axis), SortKey(node.right, rand_axis))
         [] OTHER ->
              /\ Cardinality(Members(node.left)) = Cardinality(elems) \div 2
              /\ Cardinality(Members(node.right)) =
                    Cardinality(elems) - (Cardinality(elems) \div 2)
              /\ Members(node.left) \cap Members(node.right) = {}
              /\ \E rand_axis \in 0..2 :
                    \A l \in Members(node.left), r \in Members(node.right) :
                       ~FGt(SortKey(l, rand_axis), SortKey(r, rand_axis))
              /\ ShapeOf(node.left, Members(node.left))
              /\ ShapeOf(node.right, Members(node.right))

\* C22: for a list of n >= 1 elements BvhNode::new returns a node: one
\* element is both children; two elements are one child each, in key order;
\* from three on the floor(n / 2) elements of least key on the drawn axis are
\* under the left child and the others under the right, and so on down; the
\* leaves are the elements of the list, all of them and no other.
C22_ConstructionShape ==
    (world /= None /\ Len(scene) >= 1) =>
        /\ ~IsAbort(world)
        /\ ShapeOf(world, Elements(scene))

\* Three elements, built into a tree whose left child holds the last of the
\* list and whose right child the two before it.
C22_Witness ==
    /\ world /= None /\ Len(scene) = 3 /\ ~IsAbort(world)
    /\ Members(world.left) = {scene[3]}
    /\ world.left.kind = "BvhNode" /\ world.left.left = scene[3]
    /\ world.left.right = scene[3]
    /\ Members(world.right) = {scene[1], scene[2]}
    /\ LeafCount(world) = 4

\* Twice the signed area, along the normal n, of the triangle a, b, p.
EdgeSide(n, a, b, p) == dot(n, cross(VSub(b, a), VSub(p, a)))

\* p lies strictly inside the triangle, or inside or on its edges.
StrictlyInside(vertices, p) ==
    \A i \in 1..3 :
       EdgeSide(get_normal(vertices), vertices[i], vertices[(i % 3) + 1], p) > 0
InsideOrOn(vertices, p) ==
    \A i \in 1..3 :
       EdgeSide(get_normal(vertices), vertices[i], vertices[(i % 3) + 1], p) >= 0

\* The parameter at which the ray of prim meets the plane of its polygon.
PlaneT ==
    Quotient(dot(prim.self.normal.num, VSub(prim.self.vertices[1], prim.ray.origin)),
             dot(prim.self.normal.num, prim.ray.direction))

\* C23: a polygon misses a ray parallel to its plane; a triangle of non-zero
\* area is otherwise hit by every ray that meets its plane within
\* [t_min, t_max] strictly inside the triangle, and by no ray that meets the
\* plane outside the triangle.
C23_TriangleInside ==
    (primOut /= None /\ Len(prim.self.vertices) = 3
       /\ get_normal(prim.self.vertices) /= Vec3(0, 0, 0)) =>
        IF dot(prim.self.normal.num, prim.ray.direction) = 0 THEN ~primOut.hit
        ELSE /\ (/\ ~FLt(PlaneT, prim.t_min) /\ ~FGt(PlaneT, prim.t_max)
                 /\ StrictlyInside(prim.self.vertices, point_at_param(prim.ray, PlaneT)))
                   => primOut.hit
             /\ primOut.hit =>
                   /\ ~FLt(PlaneT, prim.t_min) /\ ~FGt(PlaneT, prim.t_max)
                   /\ InsideOrOn(prim.self.vertices, point_at_param(prim.ray, PlaneT))


\* The parameters at which the ray is strictly inside the sphere that bounds
\* the medium.
ParamRange == -30..30
InsideAt(boundary, r, t) ==
    LET p == VSub(point_at_param(r, t), boundary.center)
    IN dot(p, p) < boundary.radius * boundary.radius
InsideParams(boundary, r) == {t \in ParamRange : InsideAt(boundary, r, t)}
Least(S) == CHOOSE t \in S : \A u \in S : t <= u
Greatest(S) == CHOOSE t \in S : \A u \in S : u <= t
Larger(a, b) == IF a < b THEN b ELSE a
Smaller(a, b) == IF a < b THEN a ELSE b

\* What the claim says of a medium of density above 0 whose boundary the ray
\* enters at entry and leaves at exit, the free-flight distance being
\* draw / density.
MediumAsClaimed(a, out, entry, exit) ==
    LET lo == Larger(entry, a.t_min)
        hi == Smaller(exit, a.t_max)
        ray_length == Sqrt(dot(a.ray.direction, a.ray.direction))
    IN /\ lo >= hi => ~out.hit
       /\ lo < hi =>
            (out.hit <=> a.self.draw < (hi - Larger(lo, 0)) * ray_length * a.self.density)
       /\ out.hit =>
            /\ Larger(lo, 0) <= out.rec.t
            /\ out.rec.t < hi
            /\ out.rec.hit_point = point_at_param(a.ray, out.rec.t)

\* C24: ConstantMedium::hit finds where the ray enters and leaves the
\* boundary, raises the entry to t_min and lowers the exit to t_max, misses
\* when the boundary is not crossed twice or the clamped entry is not below
\* the clamped exit, hits exactly when the free-flight distance is below the
\* distance travelled inside, and then max(entry, t_min, 0) <= t <
\* min(exit, t_max).
C24_MediumInterval ==
    (prim /= None /\ primOut /= None /\ prim.self.kind = "ConstantMedium") =>
        IF InsideParams(prim.self.boundary, prim.ray) = {}
        THEN ~primOut.hit /\ primOut.rec = HitRecordNew
        ELSE MediumAsClaimed(prim, primOut,
                             Least(InsideParams(prim.self.boundary, prim.ray)) - 1,
                             Greatest(InsideParams(prim.self.boundary, prim.ray)) + 1)

\* A hit at t = 8 between an entry raised from 3 to t_min = 4 and an exit
\* lowered from 13 to t_max = 9.
C24_Witness ==
    /\ prim /= None /\ primOut /= None
    /\ prim.self.kind = "ConstantMedium"
    /\ prim.ray.origin = Vec3(0, 0, 8) /\ prim.ray.direction = Vec3(0, 0, -1)
    /\ prim.t_min = 4 /\ prim.t_max = 9
    /\ prim.self.draw = 4 /\ prim.self.density = 1
    /\ primOut.hit
    /\ primOut.rec.t = 8
    /\ primOut.rec.hit_point = Vec3(0, 0, 0)
    /\ primOut.calls[1].out.rec.t = 3
    /\ primOut.calls[2].out.rec.t = 13

\* C25: whenever a hit test returns true, rec.t is finite with
\* t_min <= rec.t <= t_max and rec.hit_point is ray.point_at_param(rec.t).
C25_HitInRange ==
    (prim /= None /\ primOut /= None /\ primOut.hit) =>
        /\ IsFinite(primOut.rec.t)
        /\ FLe(prim.t_min, primOut.rec.t)
        /\ FLe(primOut.rec.t, prim.t_max)
        /\ primOut.rec.hit_point = point_at_param(prim.ray, primOut.rec.t)

\* C26: a hit test that returns false leaves every field of the caller's
\* record (t, hit_point, normal, material, u, v) as it was before the call.
C26_MissLeavesRecord ==
    (prim /= None /\ primOut /= None /\ ~primOut.hit) => primOut.rec = prim.rec

\* A hitable of the given kind misses with a record an earlier hit has
\* written.
MissOnto(kind) ==
    /\ prim /= None /\ primOut /= None
    /\ prim.self.kind = kind
    /\ prim.rec = WrittenRecord
    /\ ~primOut.hit

\* A wrapper whose wrapped rectangle is missed hands the written record back.
C26_Witness ==
    /\ MissOnto("FlipNormals")
    /\ primOut.calls /= <<>>
    /\ primOut.rec.normal = Frac(Vec3(0, 1, 0), 1)

\* What child i of the list writes when it alone is asked, on a fresh record.
ChildAlone(i) == Hit(prim.self.list[i], prim.ray, prim.t_min, prim.t_max, HitRecordNew)
Hitters == {i \in 1..Len(prim.self.list) : ChildAlone(i).hit}
Nearest == CHOOSE i \in Hitters : \A j \in Hitters : FLe(ChildAlone(i).rec.t, ChildAlone(j).rec.t)
\* Some child is hit, every child that is hit is hit at a finite t, and one
\* of them nearer than all the others.
OneNearest ==
    /\ Hitters /= {}
    /\ \A i \in Hitters : IsFinite(ChildAlone(i).rec.t)
    /\ \A j \in Hitters \ {Nearest} : FLt(ChildAlone(Nearest).rec.t, ChildAlone(j).rec.t)

\* C27: when HitableList::hit returns true, every field of the returned
\* record (t, hit_point, normal, material, u, v) is the one the nearest child
\* writes: none is left from a farther child that hit earlier in the
\* iteration or from the record the caller handed in.
C27_NearestWritesAll ==
    (prim /= None /\ primOut /= None /\ prim.self.kind = "HitableList" /\ primOut.hit
        /\ OneNearest) =>
        primOut.rec = ChildAlone(Nearest).rec

\* Snell's law has no refracted direction: with eta the ratio of the indices
\* on the way of the ray and c the cosine between the ray and the normal,
\* eta^2 * (1 - c^2) >= 1.
TotalInternalReflection ==
    LET dot_prod == DotNormal(scatterIn.direction, scatterIn.normal)
        c == RDiv(dot_prod, Rat(length(scatterIn.direction), 1))
        eta == IF RGt(dot_prod, Zero) THEN scatterIn.material.refractive_index
               ELSE RDiv(One, scatterIn.material.refractive_index)
    IN RLe(One, RMul(RMul(eta, eta), RSub(One, RMul(c, c))))

\* direction - 2 * dot(direction, normal) * normal
Mirrored(direction, normal) ==
    Frac(VSub(VScale(normal.den * normal.den, direction),
              VScale(2 * dot(direction, normal.num), normal.num)),
         normal.den * normal.den)

\* C29: when refract returns None in Dielectric::scatter the scattered ray
\* is the mirror reflection of the incoming direction about the normal for
\* every value of the random draw, never the zero vector put in the place of
\* the refracted direction; and Dielectric::scatter always reports
\* did_scatter = true with attenuation (1, 1, 1).
C29_TotalInternalReflection ==
    (scatterOut /= None /\ scatterIn.material.kind = "Dielectric") =>
        /\ scatterOut.did_scatter
        /\ scatterOut.attenuation = Vec3(1, 1, 1)
        /\ TotalInternalReflection =>
              /\ scatterOut.schlick = None
              /\ scatterOut.scattered = Mirrored(scatterIn.direction, scatterIn.normal)
              /\ scatterOut.scattered.num /= Vec3(0, 0, 0)

\* A ray that leaves a medium of index 2 at a sine of 3/5 (2 * 3/5 > 1) is
\* mirrored: (-4, 0, 3) about the normal (-1, 0, 0) becomes (4, 0, 3).
C29_Witness ==
    /\ scatterOut /= None
    /\ scatterIn.material = Dielectric(Rat(2, 1))
    /\ scatterIn.direction = Vec3(-4, 0, 3)
    /\ scatterIn.normal = Frac(Vec3(-1, 0, 0), 1)
    /\ TotalInternalReflection
    /\ scatterOut.reflect_probability = One
    /\ scatterOut.scattered = Frac(Vec3(4, 0, 3), 1)

\* C28: VariableMedium::hit returns after finitely many iterations of its
\* loop, for every ray, every interval and every noise field, where the
\* turbulence is zero or negative too.
C28_LoopReturns == <>(mediumOut /= None)

\* The part of C28 that holds: with a field that is at max_density
\* everywhere the first iteration breaks, whatever the generator yields.
C28_DenseReturns ==
    <>(mediumOut /= None \/ (medium.self.max_density /= 2)
                        \/ (\E d \in Flights : medium.self.noise_func[d] /= 2))

====
